---- MODULE Spec2Model ----
(***************************************************************************)
(* A model of the data-preparation core of the Bitcoin volatility project: *)
(*   - DataQualityPipeline (src/src/data/data_quality_pipeline.py) driven  *)
(*     by main (src/src/run_data_quality_pipeline.py),                     *)
(*   - VolatilityRegimeFeatures                                            *)
(*     (src/src/features/volatility_regime_features.py).                   *)
(*                                                                         *)
(* A table (pandas DataFrame) is a record [cols, rows]: the set of column  *)
(* names and the sequence of rows, each row a function from cols to cells. *)
(* A cell is a record [k, v]: a float64 ("num", held in fixed point, v     *)
(* counts 1/Scale units), a missing marker NaN/NaT ("nan"), +-infinity     *)
(* ("inf", v the sign) or a CSV string that parses neither as a number nor *)
(* as a date ("bad").                                                      *)
(***************************************************************************)
EXTENDS Integers, Sequences, FiniteSets, TLC

\* ------------------------------------------------------------------ bounds
\* Rows of a short input table.
MaxRows == 3
\* Rows of the long input tables (a z-score above 3 needs at least 11 rows).
LongLen == 12
\* Pipeline runs in one behaviour: the first on the raw file, the next ones
\* on the file the previous run persisted.
MaxRuns == 2
\* Rows of a volatility series handed to the regime labeler.
MaxSeries == 4
\* Largest number of regimes a labeler is constructed with.
MaxRegimes == 4
\* Rows of a volatility series handed to validate_volatility_data alone.
MaxVol == 12
MaxTarget == 4
\* The most rows of a processed file of calm and busy days.
MaxPrice == 7

\* Fixed-point resolution of a float64 cell: 1.00 is Scale units.
Scale == 100

\* ------------------------------------------------------------------- cells
Num(v) == [k |-> "num", v |-> v]
NaN == [k |-> "nan", v |-> 0]
Bad == [k |-> "bad", v |-> 0]
PInf == [k |-> "inf", v |-> 1]
NInf == [k |-> "inf", v |-> -1]
Inf(s) == IF s < 0 THEN NInf ELSE PInf

IsNum(c) == c.k = "num"
IsNaN(c) == c.k = "nan"
IsInf(c) == c.k = "inf"

Abs(x) == IF x < 0 THEN -x ELSE x
Sgn(x) == IF x > 0 THEN 1 ELSE IF x < 0 THEN -1 ELSE 0

\* Integer quotient rounded toward zero (b # 0).
IDiv(a, b) == Sgn(a) * Sgn(b) * (Abs(a) \div Abs(b))

RECURSIVE SqrtSearch(_, _, _)
SqrtSearch(n, lo, hi) ==
    IF lo >= hi THEN lo
    ELSE LET mid == (lo + hi + 1) \div 2
         IN  IF (n \div mid) >= mid THEN SqrtSearch(n, mid, hi)
             ELSE SqrtSearch(n, lo, mid - 1)
\* Floor of the square root of n >= 0.
ISqrt(n) == IF n <= 0 THEN 0 ELSE SqrtSearch(n, 1, n)

\* float64 comparisons: any comparison with NaN is False.
FLt(a, b) ==
    CASE IsNum(a) /\ IsNum(b) -> a.v < b.v
      [] IsInf(a) /\ IsNum(b) -> a.v < 0
      [] IsNum(a) /\ IsInf(b) -> b.v > 0
      [] IsInf(a) /\ IsInf(b) -> a.v < b.v
      [] OTHER -> FALSE
FGt(a, b) == FLt(b, a)
FEq(a, b) ==
    CASE IsNum(a) /\ IsNum(b) -> a.v = b.v
      [] IsInf(a) /\ IsInf(b) -> a.v = b.v
      [] OTHER -> FALSE

\* float64 arithmetic (IEEE 754 special values, fixed-point finite values).
FNeg(a) ==
    CASE IsNum(a) -> Num(-a.v)
      [] IsInf(a) -> Inf(-a.v)
      [] OTHER -> NaN
FAdd(a, b) ==
    CASE IsNum(a) /\ IsNum(b) -> Num(a.v + b.v)
      [] IsInf(a) /\ IsNum(b) -> a
      [] IsNum(a) /\ IsInf(b) -> b
      [] IsInf(a) /\ IsInf(b) -> IF a.v = b.v THEN a ELSE NaN
      [] OTHER -> NaN
FSub(a, b) == FAdd(a, FNeg(b))
FDiv(a, b) ==
    CASE IsNum(a) /\ IsNum(b) ->
            IF b.v # 0 THEN Num(IDiv(a.v * Scale, b.v))
            ELSE IF a.v = 0 THEN NaN ELSE Inf(a.v)
      [] IsInf(a) /\ IsNum(b) -> Inf(a.v * (IF b.v < 0 THEN -1 ELSE 1))
      [] IsNum(a) /\ IsInf(b) -> Num(0)
      [] OTHER -> NaN
FAbs(a) ==
    CASE IsNum(a) -> Num(Abs(a.v))
      [] IsInf(a) -> PInf
      [] OTHER -> NaN
\* np.sign
FSign(a) ==
    CASE IsNum(a) -> Sgn(a.v)
      [] IsInf(a) -> a.v
      [] OTHER -> 0

\* ----------------------------------------------------------------- series
\* A series (pandas Series) is a sequence of cells.
RECURSIVE SumV(_)
SumV(s) == IF s = <<>> THEN 0 ELSE Head(s).v + SumV(Tail(s))

Present(s) == SelectSeq(s, LAMBDA c : ~IsNaN(c))
HasInf(s) == \E i \in 1..Len(s) : IsInf(s[i])

\* Series.mean(): missing cells are skipped.
Mean(s) ==
    LET p == Present(s)
    IN  IF p = <<>> THEN NaN
        ELSE IF HasInf(p)
             THEN IF \E i \in 1..Len(p) : p[i] = PInf
                  THEN IF \E i \in 1..Len(p) : p[i] = NInf THEN NaN ELSE PInf
                  ELSE NInf
             ELSE Num(IDiv(SumV(p), Len(p)))

\* Series.std(): sample standard deviation (ddof = 1), missing cells skipped.
Std(s) ==
    LET p == Present(s)
    IN  IF Len(p) < 2 \/ HasInf(p) THEN NaN
        ELSE LET m == IDiv(SumV(p), Len(p))
                 d == [i \in 1..Len(p) |-> Num((p[i].v - m) * (p[i].v - m))]
             IN  Num(ISqrt(SumV(d) \div (Len(p) - 1)))


RECURSIVE FFillAt(_, _)
FFillAt(s, i) ==
    IF i = 0 THEN NaN ELSE IF ~IsNaN(s[i]) THEN s[i] ELSE FFillAt(s, i - 1)
\* fillna(method='ffill'): a missing cell takes the last value above it.
FFill(s) == [i \in 1..Len(s) |-> FFillAt(s, i)]

RECURSIVE BFillAt(_, _)
BFillAt(s, i) ==
    IF i > Len(s) THEN NaN ELSE IF ~IsNaN(s[i]) THEN s[i] ELSE BFillAt(s, i + 1)
\* fillna(method='bfill'): a missing cell takes the next value below it.
BFill(s) == [i \in 1..Len(s) |-> BFillAt(s, i)]

\* Series.pct_change(): pads missing cells, then x[i] / x[i-1] - 1.
PctChange(s) ==
    LET f == FFill(s)
    IN  [i \in 1..Len(s) |->
            IF i = 1 THEN NaN ELSE FSub(FDiv(f[i], f[i - 1]), Num(Scale))]

\* The w cells of the window ending at row i (i >= w).
Window(s, i, w) == [j \in 1..w |-> s[i - w + j]]
AllNum(s) == \A i \in 1..Len(s) : IsNum(s[i])

\* Series.rolling(w).mean(): missing until w observations are in the window
\* (pandas reads an infinite cell of a window as missing).
RollMean(s, w) ==
    [i \in 1..Len(s) |->
        IF i < w THEN NaN
        ELSE IF AllNum(Window(s, i, w)) THEN Mean(Window(s, i, w)) ELSE NaN]

\* Series.rolling(w).std()
RollStd(s, w) ==
    [i \in 1..Len(s) |->
        IF i < w THEN NaN
        ELSE IF AllNum(Window(s, i, w)) THEN Std(Window(s, i, w)) ELSE NaN]

\* Element-wise quotient and difference of two series of one length.
SDiv(a, b) == [i \in 1..Len(a) |-> FDiv(a[i], b[i])]
SSub(a, b) == [i \in 1..Len(a) |-> FSub(a[i], b[i])]

\* ------------------------------------------------------------------ tables
NRows(t) == Len(t.rows)
\* df[c]
Col(t, c) == [i \in 1..NRows(t) |-> t.rows[i][c]]
\* df[c] = s  (adds the column, or overwrites it)
SetCol(t, c, s) ==
    [cols |-> t.cols \cup {c},
     rows |-> [i \in 1..NRows(t) |->
                 [x \in t.cols \cup {c} |-> IF x = c THEN s[i] ELSE t.rows[i][x]]]]
\* df.drop(columns=cs, errors='ignore')
DropCols(t, cs) ==
    [cols |-> t.cols \ cs,
     rows |-> [i \in 1..NRows(t) |-> [x \in t.cols \ cs |-> t.rows[i][x]]]]
\* The rows of t at the positions idx, in that order.
TakeRows(t, idx) == [cols |-> t.cols, rows |-> [k \in 1..Len(idx) |-> t.rows[idx[k]]]]
\* DataFrame.fillna(method='ffill'): every column filled forward.
ffill(t) ==
    [cols |-> t.cols,
     rows |-> [i \in 1..NRows(t) |-> [x \in t.cols |-> FFill(Col(t, x))[i]]]]
\* DataFrame.fillna(method='bfill'): every column filled backward.
bfill(t) ==
    [cols |-> t.cols,
     rows |-> [i \in 1..NRows(t) |-> [x \in t.cols |-> BFill(Col(t, x))[i]]]]

required_columns ==
    {"Date", "Open", "High", "Low", "Close", "Volume",
     "log_returns", "realized_volatility"}
numeric_columns ==
    <<"Open", "High", "Low", "Close", "Volume", "log_returns", "realized_volatility">>
columns_to_drop == {"Dividends", "Stock Splits"}
price_columns == <<"Open", "High", "Low", "Close">>

\* (series < 0).any(), (series == 0).any(), and whether pd.to_datetime
\* meets a cell it cannot parse.
AnyNegative(s) == \E i \in 1..Len(s) : FLt(s[i], Num(0))
AnyZero(s) == \E i \in 1..Len(s) : FEq(s[i], Num(0))
AnyUnparseable(s) == \E i \in 1..Len(s) : s[i].k = "bad"

\* -------------------------------------------------- DataQualityPipeline
\* The diagnostics appended to validation_errors.
MissingColumnsMsg == "Missing required columns"
ConversionMsg == "Error converting data types"
NegativeMsg(c) ==
    CASE c = "Open" -> "Negative values found in Open"
      [] c = "High" -> "Negative values found in High"
      [] c = "Low" -> "Negative values found in Low"
      [] OTHER -> "Negative values found in Close"
OhlcMsg == "Invalid OHLC relationships found"
NegativeVolumeMsg == "Negative volume values found"
ZeroVolumeMsg == "Zero volume values found"
NegativeVolatilityMsg == "Negative volatility values found"

\* A conversion that leaves the cells it cannot parse as they are.
ToNumeric_ignoring(s) == s
\* pd.to_numeric(errors='coerce'): an unparseable cell becomes missing.
ToNumeric(s) == [i \in 1..Len(s) |-> IF s[i].k = "bad" THEN NaN ELSE s[i]]

RECURSIVE CoerceNumeric(_, _)
CoerceNumeric(t, cs) ==
    IF cs = <<>> THEN t
    ELSE CoerceNumeric(SetCol(t, Head(cs), ToNumeric(Col(t, Head(cs)))), Tail(cs))

\* validate_data_structure as it would be without the append of the
\* missing-columns message.
validate_data_structure_unrecorded(t, errors) ==
    IF required_columns \ t.cols # {}
    THEN [ok |-> FALSE, data |-> t, errors |-> errors]
    ELSE IF AnyUnparseable(Col(t, "Date"))
    THEN [ok |-> FALSE, data |-> t, errors |-> Append(errors, ConversionMsg)]
    ELSE [ok |-> TRUE, data |-> CoerceNumeric(t, numeric_columns), errors |-> errors]

\* validate_data_structure: [ok, data, errors].  pd.to_datetime raises on a
\* string that is no date; the handler records it and returns False.
validate_data_structure(t, errors) ==
    IF required_columns \ t.cols # {}
    THEN [ok |-> FALSE, data |-> t, errors |-> Append(errors, MissingColumnsMsg)]
    ELSE IF AnyUnparseable(Col(t, "Date"))
    THEN [ok |-> FALSE, data |-> t, errors |-> Append(errors, ConversionMsg)]
    ELSE [ok |-> TRUE, data |-> CoerceNumeric(t, numeric_columns), errors |-> errors]

\* The positions of rem ordered by ascending date, every order of equal
\* dates included: sort_values uses numpy's quicksort, which is not stable.
RECURSIVE DateOrders(_, _)
DateOrders(d, rem) ==
    IF rem = {} THEN {<<>>}
    ELSE LET least == {i \in rem : \A j \in rem : d[i].v <= d[j].v}
         IN  UNION {{<<i>> \o o : o \in DateOrders(d, rem \ {i})} : i \in least}

RECURSIVE Ascending(_)
\* The members of a set of positions in ascending order.
Ascending(S) ==
    IF S = {} THEN <<>>
    ELSE LET m == CHOOSE i \in S : \A j \in S : i <= j
         IN  <<m>> \o Ascending(S \ {m})

\* df.sort_values('Date'): the orders it may produce; missing dates go last,
\* in their original order.
sort_values(t) ==
    LET d == Col(t, "Date")
        dated == {i \in 1..NRows(t) : ~IsNaN(d[i])}
        nat == {i \in 1..NRows(t) : IsNaN(d[i])}
    IN  {TakeRows(t, o \o Ascending(nat)) : o \in DateOrders(d, dated)}

\* A fill of the missing cells with the constant 0 (fillna(0)).
fillna_zero(t) ==
    [cols |-> t.cols,
     rows |-> [i \in 1..NRows(t) |->
                 [c \in t.cols |-> IF IsNaN(t.rows[i][c]) THEN Num(0) ELSE t.rows[i][c]]]]

\* fillna as it would be with the forward fill alone.
fillna_forward_only(t) == ffill(t)

\* df.fillna(method='ffill').fillna(method='bfill')
fillna(t) == bfill(ffill(t))

\* df.drop_duplicates(subset=['Date']): the first row of each date is kept
\* (missing dates count as one date).
drop_duplicates(t) ==
    LET d == Col(t, "Date")
        keep == {i \in 1..NRows(t) : \A j \in 1..(i - 1) : d[j] # d[i]}
    IN  TakeRows(t, Ascending(keep))

\* clean_data's last two statements in the other order: duplicates dropped
\* before the gaps are filled.
clean_sorted_drop_first(s) == fillna(drop_duplicates(s))

\* clean_data from one sorted order s of the table.
clean_sorted(s) == drop_duplicates(fillna(s))
\* clean_data: the tables it may leave in self.data.
clean_data(t) == {clean_sorted(s) : s \in sort_values(DropCols(t, columns_to_drop))}

RECURSIVE NegativeMsgs(_, _)
NegativeMsgs(t, cs) ==
    IF cs = <<>> THEN <<>>
    ELSE (IF AnyNegative(Col(t, Head(cs)))
          THEN <<NegativeMsg(Head(cs))>> ELSE <<>>) \o NegativeMsgs(t, Tail(cs))

\* A row check that also objects to an open or close on the high or the low.
invalid_ohlc_touching(r) ==
    \/ FLt(r["High"], r["Low"])
    \/ ~FLt(r["Open"], r["High"])
    \/ ~FGt(r["Open"], r["Low"])
    \/ ~FLt(r["Close"], r["High"])
    \/ ~FGt(r["Close"], r["Low"])

invalid_ohlc(r) ==
    \/ FLt(r["High"], r["Low"])
    \/ FGt(r["Open"], r["High"])
    \/ FLt(r["Open"], r["Low"])
    \/ FGt(r["Close"], r["High"])
    \/ FLt(r["Close"], r["Low"])

\* validate_price_data as it would be if it returned whether this call
\* appended nothing, whatever the list held before.
validate_price_data_own_findings(t, errors) ==
    LET e == errors \o NegativeMsgs(t, price_columns)
                    \o (IF \E i \in 1..NRows(t) : invalid_ohlc(t.rows[i])
                        THEN <<OhlcMsg>> ELSE <<>>)
    IN  [ok |-> Len(e) = Len(errors), errors |-> e]

\* validate_price_data: [ok, errors]
validate_price_data(t, errors) ==
    LET e == errors \o NegativeMsgs(t, price_columns)
                    \o (IF \E i \in 1..NRows(t) : invalid_ohlc(t.rows[i])
                        THEN <<OhlcMsg>> ELSE <<>>)
    IN  [ok |-> Len(e) = 0, errors |-> e]

\* validate_volume_data as it would be if it recorded its findings and
\* returned True all the same.
validate_volume_data_passing(t, errors) ==
    [ok |-> TRUE,
     errors |-> errors \o (IF AnyNegative(Col(t, "Volume"))
                           THEN <<NegativeVolumeMsg>> ELSE <<>>)
                       \o (IF AnyZero(Col(t, "Volume"))
                           THEN <<ZeroVolumeMsg>> ELSE <<>>)]

\* validate_volume_data as it would be without the check for zero volume.
validate_volume_data_zero_unchecked(t, errors) ==
    LET e == errors \o (IF AnyNegative(Col(t, "Volume"))
                        THEN <<NegativeVolumeMsg>> ELSE <<>>)
    IN  [ok |-> Len(e) = 0, errors |-> e]

\* validate_volume_data: [ok, errors]
validate_volume_data(t, errors) ==
    LET e == errors \o (IF AnyNegative(Col(t, "Volume"))
                        THEN <<NegativeVolumeMsg>> ELSE <<>>)
                    \o (IF AnyZero(Col(t, "Volume"))
                        THEN <<ZeroVolumeMsg>> ELSE <<>>)
    IN  [ok |-> Len(e) = 0, errors |-> e]

\* |x - mean| / std of a cell against given statistics.
ZScore(x, mean, std) == FAbs(FDiv(FSub(x, mean), std))
\* The extreme-value mask as it would be without np.abs.
IsExtreme_signed(x, mean, std) == FGt(FDiv(FSub(x, mean), std), Num(3 * Scale))
\* The extreme-value mask as it would be without the division by std.
IsExtreme_undivided(x, mean, std) == FGt(FAbs(FSub(x, mean)), Num(3 * Scale))
\* z_scores > 3
IsExtreme(x, mean, std) == FGt(ZScore(x, mean, std), Num(3 * Scale))
\* A cap on the side of the value's own sign instead of its deviation's.
CapValue_by_own_sign(x, mean, std) == Num(mean.v + 3 * std.v * FSign(x))
\* mean + 3 * std * sign(x - mean)
CapValue(x, mean, std) == Num(mean.v + 3 * std.v * FSign(FSub(x, mean)))

\* The realized_volatility column after the capping of its extreme values;
\* mean and std are taken once, from the column before any replacement.
cap_extreme(s) ==
    LET mean == Mean(s)
        std == Std(s)
    IN  [i \in 1..Len(s) |->
            IF IsExtreme(s[i], mean, std) THEN CapValue(s[i], mean, std) ELSE s[i]]

\* validate_volatility_data as it would be if it returned what the price and
\* volume validators return: whether validation_errors is empty.
validate_volatility_data_gating(t, errors) ==
    LET rv == Col(t, "realized_volatility")
        e == errors \o (IF AnyNegative(rv)
                        THEN <<NegativeVolatilityMsg>> ELSE <<>>)
    IN  [ok |-> Len(e) = 0,
         data |-> SetCol(t, "realized_volatility", cap_extreme(rv)),
         errors |-> e]

\* validate_volatility_data: [ok, data, errors]
validate_volatility_data(t, errors) ==
    LET rv == Col(t, "realized_volatility")
    IN  [ok |-> TRUE,
         data |-> SetCol(t, "realized_volatility", cap_extreme(rv)),
         errors |-> errors \o (IF AnyNegative(rv)
                               THEN <<NegativeVolatilityMsg>> ELSE <<>>)]

\* Dates are day numbers of one January whose day 1 is a Monday.
\* Series.dt.dayofweek (Monday = 0), missing for a missing date.
dayofweek(s) ==
    [i \in 1..Len(s) |-> IF IsNum(s[i]) THEN Num(((s[i].v - 1) % 7) * Scale) ELSE NaN]
\* Series.dt.month
month(s) == [i \in 1..Len(s) |-> IF IsNum(s[i]) THEN Num(1 * Scale) ELSE NaN]
\* Series.isin([5, 6]).astype(int)
is_weekend(s) ==
    [i \in 1..Len(s) |->
        IF FEq(s[i], Num(5 * Scale)) \/ FEq(s[i], Num(6 * Scale))
        THEN Num(1 * Scale) ELSE Num(0)]

\* The columns enhance_data assigns, in the order of the source.
enhanced_columns ==
    <<"Daily_Range", "Price_Change", "Price_Volatility",
      "Volume_MA5", "Volume_MA20", "Volume_Ratio",
      "Volatility_MA5", "Volatility_MA20", "Volatility_Ratio",
      "Day_of_Week", "Month", "Is_Weekend",
      "Price_Trend", "Volume_Trend",
      "Return_Momentum", "Volatility_Momentum">>

\* The series enhance_data assigns to column c, from the table as it is
\* when the assignment runs.
Derived(t, c) ==
    CASE c = "Daily_Range" -> SDiv(SSub(Col(t, "High"), Col(t, "Low")), Col(t, "Close"))
      [] c = "Price_Change" -> PctChange(Col(t, "Close"))
      [] c = "Price_Volatility" -> RollStd(Col(t, "Price_Change"), 5)
      [] c = "Volume_MA5" -> RollMean(Col(t, "Volume"), 5)
      [] c = "Volume_MA20" -> RollMean(Col(t, "Volume"), 20)
      [] c = "Volume_Ratio" -> SDiv(Col(t, "Volume"), Col(t, "Volume_MA5"))
      [] c = "Volatility_MA5" -> RollMean(Col(t, "realized_volatility"), 5)
      [] c = "Volatility_MA20" -> RollMean(Col(t, "realized_volatility"), 20)
      [] c = "Volatility_Ratio" ->
            SDiv(Col(t, "realized_volatility"), Col(t, "Volatility_MA5"))
      [] c = "Day_of_Week" -> dayofweek(Col(t, "Date"))
      [] c = "Month" -> month(Col(t, "Date"))
      [] c = "Is_Weekend" -> is_weekend(Col(t, "Day_of_Week"))
      [] c = "Price_Trend" -> PctChange(RollMean(Col(t, "Close"), 5))
      [] c = "Volume_Trend" -> PctChange(RollMean(Col(t, "Volume"), 5))
      [] c = "Return_Momentum" -> RollMean(Col(t, "log_returns"), 5)
      [] OTHER -> RollMean(Col(t, "realized_volatility"), 5)   \* Volatility_Momentum

RECURSIVE AssignDerived(_, _)
AssignDerived(t, cs) ==
    IF cs = <<>> THEN t
    ELSE AssignDerived(SetCol(t, Head(cs), Derived(t, Head(cs))), Tail(cs))
\* enhance_data
enhance_data(t) == AssignDerived(t, enhanced_columns)

features_to_normalize ==
    <<"Volume", "Daily_Range", "Price_Change", "Price_Volatility",
      "Volume_Ratio", "Volatility_Ratio", "Price_Trend", "Volume_Trend",
      "Return_Momentum", "Volatility_Momentum">>
NormalizedName(c) ==
    CASE c = "Volume" -> "Volume_normalized"
      [] c = "Daily_Range" -> "Daily_Range_normalized"
      [] c = "Price_Change" -> "Price_Change_normalized"
      [] c = "Price_Volatility" -> "Price_Volatility_normalized"
      [] c = "Volume_Ratio" -> "Volume_Ratio_normalized"
      [] c = "Volatility_Ratio" -> "Volatility_Ratio_normalized"
      [] c = "Price_Trend" -> "Price_Trend_normalized"
      [] c = "Volume_Trend" -> "Volume_Trend_normalized"
      [] c = "Return_Momentum" -> "Return_Momentum_normalized"
      [] OTHER -> "Volatility_Momentum_normalized"

\* (x - mean) / std of a series against its own statistics.
ZNormalize(s) ==
    LET mean == Mean(s)
        std == Std(s)
    IN  [i \in 1..Len(s) |-> FDiv(FSub(s[i], mean), std)]

RECURSIVE NormalizeCols(_, _)
NormalizeCols(t, cs) ==
    IF cs = <<>> THEN t
    ELSE NormalizeCols(
            IF Head(cs) \in t.cols
            THEN SetCol(t, NormalizedName(Head(cs)), ZNormalize(Col(t, Head(cs))))
            ELSE t,
            Tail(cs))
\* normalize_data as it would be if the normalized Volume also replaced
\* Volume itself.
normalize_data_in_place(t) ==
    SetCol(NormalizeCols(t, features_to_normalize), "Volume",
           ZNormalize(Col(t, "Volume")))
\* normalize_data
normalize_data(t) == NormalizeCols(t, features_to_normalize)

\* --------------------------------------------- VolatilityRegimeFeatures
\* A categorical cell: the position of its label in regime_labels (an
\* ordered categorical, so codes compare as the labels do).
Cat(code) == [k |-> "cat", v |-> code]

\* __init__: the label names, by position.
regime_labels(n) ==
    IF n = 3 THEN <<"Low", "Medium", "High">>
    ELSE [i \in 1..n |->
            CASE i = 1 -> "Regime_1" [] i = 2 -> "Regime_2" [] i = 3 -> "Regime_3"
              [] i = 4 -> "Regime_4" [] i = 5 -> "Regime_5" [] OTHER -> "Regime_6"]

\* The j-th smallest (j = 0 is the least) of the numbers of a series p of
\* present cells.
OrderStat(p, j) ==
    LET v == CHOOSE i \in 1..Len(p) :
                /\ Cardinality({m \in 1..Len(p) : p[m].v < p[i].v}) <= j
                /\ j < Cardinality({m \in 1..Len(p) : p[m].v <= p[i].v})
    IN  p[v].v

\* Series.quantile(k / q): linear interpolation between the two order
\* statistics around position (n - 1) * k / q; missing cells are skipped.
Quantile(s, k, q) ==
    LET p == Present(s)
        n == Len(p)
        j == ((n - 1) * k) \div q
        r == ((n - 1) * k) % q
        lo == OrderStat(p, j)
        hi == OrderStat(p, IF j + 1 < n THEN j + 1 ELSE j)
    IN  IF n = 0 THEN NaN ELSE Num(lo + IDiv((hi - lo) * r, q))

\* pd.qcut as it would be with bins closed on the left (right=False): a
\* value x gets the bin with edge[b] <= x < edge[b + 1].
qcut_left_closed(s, q) ==
    LET edge == [b \in 1..(q + 1) |-> Quantile(s, b - 1, q)]
        code(x) == Cardinality({b \in 1..(q + 1) : ~FGt(edge[b], x)})
    IN  IF \E a, b \in 1..(q + 1) : a # b /\ edge[a] = edge[b]
        THEN [ok |-> FALSE, codes |-> <<>>]
        ELSE [ok |-> TRUE,
              codes |-> [i \in 1..Len(s) |->
                           IF IsNaN(s[i]) \/ code(s[i]) = 0 \/ code(s[i]) = q + 1
                           THEN NaN ELSE Cat(code(s[i]))]]

\* pd.qcut as it would be with the labels handed over in reverse order.
qcut_reversed(s, q) ==
    LET edge == [b \in 1..(q + 1) |-> Quantile(s, b - 1, q)]
        below(x) == Cardinality({b \in 1..(q + 1) : FLt(edge[b], x)})
        code(x) == IF FEq(x, edge[1]) THEN 1 ELSE below(x)
    IN  IF \E a, b \in 1..(q + 1) : a # b /\ edge[a] = edge[b]
        THEN [ok |-> FALSE, codes |-> <<>>]
        ELSE [ok |-> TRUE,
              codes |-> [i \in 1..Len(s) |->
                           IF IsNaN(s[i]) \/ code(s[i]) = 0 \/ code(s[i]) = q + 1
                           THEN NaN ELSE Cat(q + 1 - code(s[i]))]]

\* pd.qcut(s, q, labels): [ok, codes].  The q + 1 bin edges are the
\* quantiles 0, 1/q, .., 1; edges that are not all different raise
\* ValueError (ok = FALSE); a value x gets the bin with edge[b] < x <=
\* edge[b + 1], the least value the first bin, a missing cell no bin.
qcut(s, q) ==
    LET edge == [b \in 1..(q + 1) |-> Quantile(s, b - 1, q)]
        below(x) == Cardinality({b \in 1..(q + 1) : FLt(edge[b], x)})
        code(x) == IF FEq(x, edge[1]) THEN 1 ELSE below(x)
    IN  IF \E a, b \in 1..(q + 1) : a # b /\ edge[a] = edge[b]
        THEN [ok |-> FALSE, codes |-> <<>>]
        ELSE [ok |-> TRUE,
              codes |-> [i \in 1..Len(s) |->
                           IF IsNaN(s[i]) \/ code(s[i]) = 0 \/ code(s[i]) = q + 1
                           THEN NaN ELSE Cat(code(s[i]))]]

\* identify_regimes: [ok, df]; df['vol_regime'] = pd.qcut(df[volatility_col], ...)
identify_regimes(t, n) ==
    LET c == qcut(Col(t, "realized_volatility"), n)
    IN  IF c.ok THEN [ok |-> TRUE, df |-> SetCol(t, "vol_regime", c.codes)]
        ELSE [ok |-> FALSE, df |-> t]

\* An int64 cell holding k.
Int64(k) == Num(k * Scale)

\* df['vol_regime'] != df['vol_regime'].shift(), at row i: a row without a
\* label, or after a row without one, compares as different; so does the
\* first row, whose shifted label is missing.
LabelChanged(l, i) ==
    \/ i = 1
    \/ l[i].k # "cat"
    \/ l[i - 1].k # "cat"
    \/ l[i].v # l[i - 1].v
\* Groups made of the label alone, whatever rows lie between its runs.
regime_group_of_label(l) ==
    [i \in 1..Len(l) |-> IF l[i].k = "cat" THEN l[i].v ELSE 0]
\* (...).cumsum(): the number of changes up to row i.
regime_group(l) ==
    [i \in 1..Len(l) |-> Cardinality({j \in 1..i : LabelChanged(l, j)})]
\* A numbering of the rows of a group that starts at 1.
cumcount_from_one(g) ==
    [i \in 1..Len(g) |-> Cardinality({j \in 1..i : g[j] = g[i]})]
\* df.groupby('regime_group').cumcount(): the number of earlier rows of the
\* row's group.
cumcount(g) ==
    [i \in 1..Len(g) |-> Cardinality({j \in 1..(i - 1) : g[j] = g[i]})]
\* calculate_regime_duration
calculate_regime_duration(t) ==
    LET g == regime_group(Col(t, "vol_regime"))
        d == cumcount(g)
    IN  SetCol(SetCol(t, "regime_group", [i \in 1..NRows(t) |-> Int64(g[i])]),
               "regime_duration", [i \in 1..NRows(t) |-> Int64(d[i])])

\* The rows that pair a labelled previous row with a labelled current one.
Transitions(l) == {i \in 2..Len(l) : l[i - 1].k = "cat" /\ l[i].k = "cat"}
\* pd.crosstab(df['vol_regime'].shift(), df['vol_regime']): the counts of
\* (previous, current) pairs; only the labels that occur as a previous one
\* get a row, only those that occur as a current one a column.
crosstab(l) ==
    LET index == {l[i - 1].v : i \in Transitions(l)}
        columns == {l[i].v : i \in Transitions(l)}
    IN  [index |-> index,
         columns |-> columns,
         cell |-> [a \in index, b \in columns |->
                     Int64(Cardinality({i \in Transitions(l) :
                                         l[i - 1].v = a /\ l[i].v = b}))]]
RECURSIVE SumOver(_, _, _)
\* The sum of row a of a matrix over the columns cs.
SumOver(m, a, cs) ==
    IF cs = {} THEN Num(0)
    ELSE LET b == CHOOSE x \in cs : TRUE
         IN  FAdd(m.cell[a, b], SumOver(m, a, cs \ {b}))
\* The counts left as they are, without the division by the row totals.
row_normalized_skipped(m) == m
\* transitions.div(transitions.sum(axis=1), axis=0)
row_normalized(m) ==
    [index |-> m.index,
     columns |-> m.columns,
     cell |-> [a \in m.index, b \in m.columns |->
                 FDiv(m.cell[a, b], SumOver(m, a, m.columns))]]

\* f'transition_prob_{regime}'
TransitionColumn(label) ==
    CASE label = "Low" -> "transition_prob_Low"
      [] label = "Medium" -> "transition_prob_Medium"
      [] label = "High" -> "transition_prob_High"
      [] label = "Regime_1" -> "transition_prob_Regime_1"
      [] label = "Regime_2" -> "transition_prob_Regime_2"
      [] label = "Regime_3" -> "transition_prob_Regime_3"
      [] label = "Regime_4" -> "transition_prob_Regime_4"
      [] label = "Regime_5" -> "transition_prob_Regime_5"
      [] OTHER -> "transition_prob_Regime_6"
\* df['vol_regime'].map(transition_probs[regime]): the entry of the row of
\* the cell's label, missing for a label without a row.
MapLabels(l, m, r) ==
    [i \in 1..Len(l) |->
        IF l[i].k = "cat" /\ l[i].v \in m.index THEN m.cell[l[i].v, r] ELSE NaN]
RECURSIVE AnnotateTransitions(_, _, _, _)
\* The loop over self.regime_labels from regime r on: [ok, df].
\* transition_probs[regime] raises KeyError for a regime that is no column
\* of the matrix; the columns assigned before it stay.
AnnotateTransitions(t, m, r, n) ==
    IF r > n THEN [ok |-> TRUE, df |-> t]
    ELSE IF r \notin m.columns THEN [ok |-> FALSE, df |-> t]
    ELSE AnnotateTransitions(
            SetCol(t, TransitionColumn(regime_labels(n)[r]),
                   MapLabels(Col(t, "vol_regime"), m, r)),
            m, r + 1, n)
\* calculate_regime_transitions: [ok, df, transition_probs]
calculate_regime_transitions(t, n) ==
    LET m == row_normalized(crosstab(Col(t, "vol_regime")))
        r == AnnotateTransitions(t, m, 1, n)
    IN  [ok |-> r.ok, df |-> r.df, transition_probs |-> m]

\* Distances to the edges next to the ends: the second and the last but one
\* of the n + 1 quantiles.
calculate_regime_boundary_distance_inner(t, n) ==
    LET s == Col(t, "realized_volatility")
        lower == Quantile(s, 1, n)
        upper == Quantile(s, n - 1, n)
    IN  SetCol(SetCol(t, "distance_to_lower_boundary",
                      [i \in 1..Len(s) |-> FSub(s[i], lower)]),
               "distance_to_upper_boundary",
               [i \in 1..Len(s) |-> FSub(upper, s[i])])

\* calculate_regime_boundary_distance: the distances of the volatility to
\* the first and the last of the n + 1 quantiles.
calculate_regime_boundary_distance(t, n) ==
    LET s == Col(t, "realized_volatility")
        lower == Quantile(s, 0, n)
        upper == Quantile(s, n, n)
    IN  SetCol(SetCol(t, "distance_to_lower_boundary",
                      [i \in 1..Len(s) |-> FSub(s[i], lower)]),
               "distance_to_upper_boundary",
               [i \in 1..Len(s) |-> FSub(upper, s[i])])

\* -------------------------------------------------- RegimeFeatureEngineer
\* A target that takes the mean alone as its threshold.
create_target_variable_above_mean(t) ==
    LET s == Col(t, "realized_volatility")
    IN  [i \in 1..NRows(t) |-> IF FGt(s[i], Mean(s)) THEN 1 ELSE 0]
\* create_target_variable: (realized_volatility > vol_mean + vol_std).astype(int)
create_target_variable(t) ==
    LET s == Col(t, "realized_volatility")
        vol_threshold == FAdd(Mean(s), Std(s))
    IN  [i \in 1..NRows(t) |-> IF FGt(s[i], vol_threshold) THEN 1 ELSE 0]

\* Series.pct_change(h): pads missing cells, then x[i] / x[i-h] - 1.
PctChangeBy(s, h) ==
    LET f == FFill(s)
    IN  [i \in 1..Len(s) |->
            IF i <= h THEN NaN ELSE FSub(FDiv(f[i], f[i - h]), Num(Scale))]

\* The correlation of two windows of numbers; 0/0 where one of them is
\* constant.
Corr(x, y) ==
    LET mx == IDiv(SumV(x), Len(x))
        my == IDiv(SumV(y), Len(y))
        sxy == SumV([j \in 1..Len(x) |-> Num((x[j].v - mx) * (y[j].v - my))])
        sxx == SumV([j \in 1..Len(x) |-> Num((x[j].v - mx) * (x[j].v - mx))])
        syy == SumV([j \in 1..Len(x) |-> Num((y[j].v - my) * (y[j].v - my))])
    IN  FDiv(Num(sxy), Num(ISqrt(sxx) * ISqrt(syy)))
\* a.rolling(w).corr(b)
RollCorr(a, b, w) ==
    [i \in 1..Len(a) |->
        IF i < w THEN NaN
        ELSE IF AllNum(Window(a, i, w)) /\ AllNum(Window(b, i, w))
             THEN Corr(Window(a, i, w), Window(b, i, w)) ELSE NaN]

\* The name of a feature column: the parts of its f-string, the number 0
\* for a name without one.
horizons == {1, 3, 5, 10}
windows == {5, 10, 20}
Names(stems, ns) == {<<f, d>> : f \in stems, d \in ns}
\* pd.DataFrame(index=self.data.index) with the columns of vals assigned.
Frame(n, vals) ==
    [cols |-> DOMAIN vals,
     rows |-> [i \in 1..n |-> [c \in DOMAIN vals |-> vals[c][i]]]]

\* Price momentum as the one-step change of the rolling mean.
create_price_features_mean_momentum(t) ==
    LET close == Col(t, "Close")
    IN  Frame(NRows(t),
          [c \in Names({"price_change"}, horizons)
                 \cup Names({"price_volatility", "price_momentum", "trend_strength"},
                            windows) |->
             CASE c[1] = "price_change" -> PctChangeBy(close, c[2])
               [] c[1] = "price_volatility" -> RollStd(PctChange(close), c[2])
               [] c[1] = "price_momentum" -> PctChange(RollMean(close, c[2]))
               [] OTHER -> SDiv(SSub(close, RollMean(close, c[2])),
                                RollMean(close, c[2]))])
\* create_price_features
create_price_features(t) ==
    LET close == Col(t, "Close")
    IN  Frame(NRows(t),
          [c \in Names({"price_change"}, horizons)
                 \cup Names({"price_volatility", "price_momentum", "trend_strength"},
                            windows) |->
             CASE c[1] = "price_change" -> PctChangeBy(close, c[2])
               [] c[1] = "price_volatility" -> RollStd(PctChange(close), c[2])
               [] c[1] = "price_momentum" -> PctChangeBy(close, c[2])
               [] OTHER -> SDiv(SSub(close, RollMean(close, c[2])),
                                RollMean(close, c[2]))])

\* create_volume_features
create_volume_features(t) ==
    LET volume == Col(t, "Volume")
    IN  Frame(NRows(t),
          [c \in Names({"volume_change"}, horizons)
                 \cup Names({"volume_ma", "volume_std", "volume_momentum",
                             "volume_trend_strength"}, windows) |->
             CASE c[1] = "volume_change" -> PctChangeBy(volume, c[2])
               [] c[1] = "volume_ma" -> RollMean(volume, c[2])
               [] c[1] = "volume_std" -> RollStd(volume, c[2])
               [] c[1] = "volume_momentum" -> PctChangeBy(volume, c[2])
               [] OTHER -> SDiv(SSub(volume, RollMean(volume, c[2])),
                                RollMean(volume, c[2]))])

\* The volatility family with an absent target read as a target of zeros.
create_volatility_features_absent_as_zero(t, tgt) ==
    LET rv == Col(t, "realized_volatility")
        label == [i \in 1..NRows(t) |-> IF tgt = <<>> THEN Num(0) ELSE Int64(tgt[1][i])]
    IN  [ok |-> TRUE,
         features |->
           Frame(NRows(t),
             [c \in Names({"volatility_change"}, horizons)
                    \cup Names({"volatility_ma", "volatility_std",
                                "volatility_momentum", "regime_persistence"},
                               windows) |->
                CASE c[1] = "volatility_change" -> PctChangeBy(rv, c[2])
                  [] c[1] = "volatility_ma" -> RollMean(rv, c[2])
                  [] c[1] = "volatility_std" -> RollStd(rv, c[2])
                  [] c[1] = "volatility_momentum" -> PctChangeBy(rv, c[2])
                  [] OTHER -> RollMean(label, c[2])])]
\* create_volatility_features: self.target.rolling(window) raises the
\* AttributeError of None when no target has been created (ok = FALSE).
create_volatility_features(t, tgt) ==
    IF tgt = <<>> THEN [ok |-> FALSE, features |-> [cols |-> {}, rows |-> <<>>]]
    ELSE
    LET rv == Col(t, "realized_volatility")
        label == [i \in 1..NRows(t) |-> Int64(tgt[1][i])]
    IN  [ok |-> TRUE,
         features |->
           Frame(NRows(t),
             [c \in Names({"volatility_change"}, horizons)
                    \cup Names({"volatility_ma", "volatility_std",
                                "volatility_momentum", "regime_persistence"},
                               windows) |->
                CASE c[1] = "volatility_change" -> PctChangeBy(rv, c[2])
                  [] c[1] = "volatility_ma" -> RollMean(rv, c[2])
                  [] c[1] = "volatility_std" -> RollStd(rv, c[2])
                  [] c[1] = "volatility_momentum" -> PctChangeBy(rv, c[2])
                  [] OTHER -> RollMean(label, c[2])])]

\* np.sin and np.cos of 2 * pi * k / 7 for the days k = 0..6 of the week,
\* and of 2 * pi * 1 / 12 for January.
day_of_week_sin == <<0, 78, 97, 43, -43, -97, -78>>
day_of_week_cos == <<100, 62, -22, -90, -90, -22, 62>>
\* create_time_features
create_time_features(t) ==
    LET date == Col(t, "Date")
        dow == dayofweek(date)
        flag(b) == IF b THEN Int64(1) ELSE Int64(0)
    IN  Frame(NRows(t),
          [c \in Names({"day_of_week", "is_weekend", "month", "is_month_end",
                        "is_month_start", "quarter", "day_of_week_sin",
                        "day_of_week_cos", "month_sin", "month_cos"}, {0}) |->
             CASE c[1] = "day_of_week" -> dow
               [] c[1] = "is_weekend" -> is_weekend(dow)
               [] c[1] = "month" -> month(date)
               [] c[1] = "is_month_end" -> [i \in 1..NRows(t) |-> flag(date[i].v = 31)]
               [] c[1] = "is_month_start" -> [i \in 1..NRows(t) |-> flag(date[i].v = 1)]
               [] c[1] = "quarter" -> [i \in 1..NRows(t) |-> Int64(1)]
               [] c[1] = "day_of_week_sin" ->
                     [i \in 1..NRows(t) |-> Num(day_of_week_sin[(dow[i].v \div Scale) + 1])]
               [] c[1] = "day_of_week_cos" ->
                     [i \in 1..NRows(t) |-> Num(day_of_week_cos[(dow[i].v \div Scale) + 1])]
               [] c[1] = "month_sin" -> [i \in 1..NRows(t) |-> Num(50)]
               [] OTHER -> [i \in 1..NRows(t) |-> Num(86)]])

\* create_interaction_features
create_interaction_features(t) ==
    LET close == Col(t, "Close")
        volume == Col(t, "Volume")
        rv == Col(t, "realized_volatility")
    IN  Frame(NRows(t),
          [c \in Names({"price_volume_correlation", "volatility_volume_correlation",
                        "price_volatility_correlation"}, {5}) |->
             CASE c[1] = "price_volume_correlation" ->
                     RollCorr(PctChange(close), PctChange(volume), 5)
               [] c[1] = "volatility_volume_correlation" -> RollCorr(rv, volume, 5)
               [] OTHER -> RollCorr(PctChange(close), rv, 5)])

\* pd.concat(frames, axis=1) of frames with one index and distinct columns.
RECURSIVE concat(_)
concat(frames) ==
    IF Len(frames) = 1 THEN frames[1]
    ELSE LET a == frames[1]
             b == concat(Tail(frames))
         IN  [cols |-> a.cols \cup b.cols,
              rows |-> [i \in 1..NRows(a) |->
                          [c \in a.cols \cup b.cols |->
                              IF c \in a.cols THEN a.rows[i][c] ELSE b.rows[i][c]]]]

\* A replacement of the negative infinity alone.
replace_negative_inf(t) ==
    [cols |-> t.cols,
     rows |-> [i \in 1..NRows(t) |->
                 [c \in t.cols |-> IF t.rows[i][c] = NInf THEN NaN ELSE t.rows[i][c]]]]
\* DataFrame.replace([np.inf, -np.inf], np.nan)
replace(t) ==
    [cols |-> t.cols,
     rows |-> [i \in 1..NRows(t) |->
                 [c \in t.cols |-> IF IsInf(t.rows[i][c]) THEN NaN ELSE t.rows[i][c]]]]

\* ------------------------------------------------------------ input files
all_columns == required_columns \cup columns_to_drop

\* The numeric cells of an input row, by kind of row.
KindCells(kind) ==
    CASE kind = "A" ->
            [Open |-> Num(900), High |-> Num(1000), Low |-> Num(800), Close |-> Num(950),
             Volume |-> Num(10000), log_returns |-> Num(0), realized_volatility |-> Num(100)]
      [] kind = "B" ->
            [Open |-> Num(950), High |-> Num(1100), Low |-> Num(900), Close |-> Num(1000),
             Volume |-> Num(20000), log_returns |-> Num(5), realized_volatility |-> Num(200)]
      [] kind = "N" ->
            [Open |-> NaN, High |-> NaN, Low |-> NaN, Close |-> NaN,
             Volume |-> NaN, log_returns |-> NaN, realized_volatility |-> NaN]
      [] kind = "ZeroVolume" ->
            [Open |-> Num(950), High |-> Num(1100), Low |-> Num(900), Close |-> Num(1000),
             Volume |-> Num(0), log_returns |-> Num(5), realized_volatility |-> Num(200)]
      [] kind = "NegativeVolume" ->
            [Open |-> Num(900), High |-> Num(1000), Low |-> Num(800), Close |-> Num(950),
             Volume |-> Num(-10000), log_returns |-> Num(0), realized_volatility |-> Num(100)]
      [] kind = "NegativePrice" ->
            [Open |-> Num(-100), High |-> Num(1000), Low |-> Num(-200), Close |-> Num(950),
             Volume |-> Num(10000), log_returns |-> Num(0), realized_volatility |-> Num(100)]
      [] kind = "Inconsistent" ->
            [Open |-> Num(900), High |-> Num(800), Low |-> Num(1000), Close |-> Num(900),
             Volume |-> Num(10000), log_returns |-> Num(0), realized_volatility |-> Num(100)]
      [] kind = "NegativeVolatility" ->
            [Open |-> Num(900), High |-> Num(1000), Low |-> Num(800), Close |-> Num(950),
             Volume |-> Num(10000), log_returns |-> Num(-3), realized_volatility |-> Num(-100)]
      [] kind = "ZeroClose" ->
            [Open |-> Num(0), High |-> Num(100), Low |-> Num(0), Close |-> Num(0),
             Volume |-> Num(10000), log_returns |-> Num(0), realized_volatility |-> Num(100)]
      [] OTHER ->   \* "Unparseable": a Close cell that is no number
            [Open |-> Num(900), High |-> Num(1000), Low |-> Num(800), Close |-> Bad,
             Volume |-> Num(10000), log_returns |-> Num(0), realized_volatility |-> Num(100)]

\* A row of the raw file: its date cell d and its numeric cells by kind.
RawRow(d, kind) ==
    [x \in all_columns |->
        IF x = "Date" THEN d
        ELSE IF x \in columns_to_drop THEN Num(0)
        ELSE KindCells(kind)[x]]

CleanKinds == {"A", "B", "N"}
DirtyKinds == {"ZeroVolume", "NegativeVolume", "NegativePrice", "Inconsistent",
               "NegativeVolatility", "ZeroClose", "Unparseable"}
CleanRows == {RawRow(d, k) : d \in {Num(1), Num(2), NaN}, k \in CleanKinds}

\* Tables of up to MaxRows rows, each row valid or missing its numbers.
ShortTables ==
    UNION {{[cols |-> all_columns, rows |-> r] : r \in [1..n -> CleanRows]} : n \in 0..MaxRows}
\* Tables with one row that a validator or the type conversion objects to.
DirtyTables ==
    LET dirty == {RawRow(Num(d), k) : d \in {1, 2}, k \in DirtyKinds}
                    \cup {RawRow(Bad, "A")}
    IN  {[cols |-> all_columns, rows |-> <<r>>] : r \in dirty}
          \cup {[cols |-> all_columns,
                 rows |-> <<RawRow(Num(IF r["Date"] = Num(1) THEN 2 ELSE 1), "A"), r>>] :
                    r \in dirty}
\* Tables that lack one required column, and one with no cosmetic column.
NarrowTables ==
    {DropCols([cols |-> all_columns, rows |-> <<RawRow(Num(1), "A")>>], {c}) :
        c \in required_columns}
      \cup {DropCols([cols |-> all_columns,
                      rows |-> <<RawRow(Num(2), "B"), RawRow(Num(1), "A")>>],
                     columns_to_drop)}
\* Tables of LongLen valid rows on consecutive days, one of them with an
\* outlying realized volatility v.
LongTable(at, v) ==
    [cols |-> all_columns,
     rows |-> [i \in 1..LongLen |->
                 [RawRow(Num(i), "A") EXCEPT
                    !["realized_volatility"] = IF i = at THEN Num(v) ELSE @]]]
LongTables == {LongTable(at, v) : at \in {1, LongLen}, v \in {1000, -800}}

\* What the raw file may hold; <<>> is a file that cannot be read.
RawFiles ==
    {<<>>} \cup {<<t>> : t \in ShortTables \cup DirtyTables \cup NarrowTables \cup LongTables}

\* The tables a caller hands to validate_volatility_data alone: a Close
\* column that counts the rows and a realized_volatility column, which
\* holds up to MaxVol volatilities, each 0.00 or 10.00, or the five
\* volatilities 1, 1, 1, 1, 50.
VolTable(s) ==
    [cols |-> {"Close", "realized_volatility"},
     rows |-> [i \in 1..Len(s) |->
                 [x \in {"Close", "realized_volatility"} |->
                     IF x = "Close" THEN Int64(i) ELSE s[i]]]]
VolTables ==
    {VolTable(s) : s \in UNION {[1..n -> {Num(0), Num(10 * Scale)}] : n \in 0..MaxVol}}
        \cup {VolTable(<<Int64(1), Int64(1), Int64(1), Int64(1), Int64(50)>>)}

\* The tables handed to the regime labeler: one column of volatilities.
\* Every series of up to MaxSeries cells, each missing or one of 1.00 ..
\* MaxSeries.00, and three series of different values for each of the next
\* three lengths: rising, falling, and odd ranks before even ones.
SeriesCells == {NaN} \cup {Num(v * Scale) : v \in 1..MaxSeries}
DistinctSeries ==
    UNION {{[i \in 1..n |-> Num(i * Scale)],
            [i \in 1..n |-> Num((n + 1 - i) * Scale)],
            [i \in 1..n |-> Num((IF 2 * i <= n + 1 THEN 2 * i - 1 ELSE 2 * (i - (n + 1) \div 2)) * Scale)]} :
                n \in (MaxSeries + 1)..(MaxSeries + 3)}
SeriesTable(s) ==
    [cols |-> {"realized_volatility"},
     rows |-> [i \in 1..Len(s) |-> [x \in {"realized_volatility"} |-> s[i]]]]
SeriesTables ==
    {SeriesTable(s) : s \in UNION {[1..n -> SeriesCells] : n \in 0..MaxSeries}}
        \cup {SeriesTable(s) : s \in DistinctSeries}

\* The tables a caller hands to calculate_regime_duration directly: up to
\* MaxSeries rows, each without a label or with one of the n labels, the
\* volatility of a row being missing or its label's rank.
LabelCells(n) == {NaN} \cup {Cat(c) : c \in 1..n}
LabelledTable(l) ==
    [cols |-> {"realized_volatility", "vol_regime"},
     rows |-> [i \in 1..Len(l) |->
                 [x \in {"realized_volatility", "vol_regime"} |->
                     IF x = "vol_regime" THEN l[i]
                     ELSE IF l[i].k = "cat" THEN Int64(l[i].v) ELSE NaN]]]
LabelledTables(n) ==
    {LabelledTable(l) : l \in UNION {[1..k -> LabelCells(n)] : k \in 0..MaxSeries}}

\* The processed files the feature engineer loads, with the columns it
\* reads. Up to MaxTarget rows of one close and one volume, each volatility
\* missing or one of 0.10, 0.20, 0.90.
TargetCells == {NaN} \cup {Num(v) : v \in {10, 20, 90}}
EngineerTable(s) ==
    [cols |-> {"Date", "Close", "Volume", "realized_volatility"},
     rows |-> [i \in 1..Len(s) |->
                 [x \in {"Date", "Close", "Volume", "realized_volatility"} |->
                     CASE x = "Date" -> Num(i)
                       [] x = "realized_volatility" -> s[i]
                       [] OTHER -> Int64(1)]]]
\* Up to MaxPrice rows, each a calm day (close 1.00, volume 1.00,
\* volatility 0) or a busy day (close 2.00, volume 3.00, volatility 0.10).
DayCells(kind) ==
    IF kind = "calm"
    THEN [Close |-> Int64(1), Volume |-> Int64(1), realized_volatility |-> Num(0)]
    ELSE [Close |-> Int64(2), Volume |-> Int64(3), realized_volatility |-> Num(10)]
DaysTable(s) ==
    [cols |-> {"Date", "Close", "Volume", "realized_volatility"},
     rows |-> [i \in 1..Len(s) |->
                 [x \in {"Date", "Close", "Volume", "realized_volatility"} |->
                     IF x = "Date" THEN Num(i) ELSE DayCells(s[i])[x]]]]
EngineerTables ==
    {EngineerTable(s) : s \in UNION {[1..k -> TargetCells] : k \in 0..MaxTarget}}
    \cup {DaysTable(s) : s \in UNION {[1..k -> {"calm", "busy"}] : k \in 0..MaxPrice}}

\* ------------------------------------------------------------------- state
VARIABLES
    fs,                 \* the files: raw (input_path), processed (output_path)
    run,                \* number of the current run of main
    pc,                 \* the next step of main / run_pipeline
    data,               \* self.data: <<>> (None) or <<table>>
    prev,               \* self.data as it was before the last stage
    validation_errors,  \* self.validation_errors
    stages,             \* the stages this run has executed, with their outcome
    result,             \* what run_pipeline returned: "none", "true", "false"
    logged,             \* the validation messages written to the log
    written,            \* whether this run wrote the output file
    n_regimes,          \* VolatilityRegimeFeatures.n_regimes
    df,                 \* the caller's table, handed to create_features
    df_features,        \* create_features' working table: <<>> or <<table>>
    rpc,                \* the next step of create_features
    transition_probs,   \* calculate_regime_transitions' matrix: <<>> or <<matrix>>
    df_features_is_df,  \* whether df_features and df are one object
    engineer_data,      \* RegimeFeatureEngineer.data: <<>> or <<table>>
    target,             \* RegimeFeatureEngineer.target: <<>> (None) or <<series>>
    families,           \* the feature frames a call has built so far
    features,           \* RegimeFeatureEngineer.features: <<>> (None) or <<table>>
    epc                 \* the next step of the feature engineer

pipeline_vars ==
    <<fs, run, pc, data, prev, validation_errors, stages, result, logged, written>>
regime_vars == <<n_regimes, df, df_features, rpc, transition_probs, df_features_is_df>>
engineer_vars == <<engineer_data, target, families, features, epc>>
vars == <<pipeline_vars, regime_vars, engineer_vars>>

Stage(name, out) == [stage |-> name, out |-> out]

\* No pipeline object, no regime labeler, no feature engineer at work.
NoPipelineRun ==
    /\ fs = [raw |-> <<>>, processed |-> <<>>]
    /\ run = 1
    /\ pc = "none"
    /\ data = <<>>
    /\ prev = <<>>
    /\ validation_errors = <<>>
    /\ stages = <<>>
    /\ result = "none"
    /\ logged = <<>>
    /\ written = FALSE
NoRegimeRun ==
    /\ n_regimes = 3
    /\ df = [cols |-> {}, rows |-> <<>>]
    /\ df_features = <<>>
    /\ rpc = "none"
    /\ transition_probs = <<>>
    /\ df_features_is_df = FALSE
NoEngineer ==
    /\ engineer_data = <<>>
    /\ target = <<>>
    /\ families = <<>>
    /\ features = <<>>
    /\ epc = "none"

Init ==
    /\ fs \in {[raw |-> f, processed |-> <<>>] : f \in RawFiles}
    /\ run = 1
    /\ pc = "main"
    /\ data = <<>>
    /\ prev = <<>>
    /\ validation_errors = <<>>
    /\ stages = <<>>
    /\ result = "none"
    /\ logged = <<>>
    /\ written = FALSE
    /\ NoRegimeRun
    /\ NoEngineer

\* main: pipeline = DataQualityPipeline(input_path, output_path)
Construct ==
    /\ UNCHANGED <<regime_vars, engineer_vars>>
    /\ pc = "main"
    /\ pc' = "load"
    /\ data' = <<>>
    /\ prev' = <<>>
    /\ validation_errors' = <<>>
    /\ stages' = <<>>
    /\ result' = "none"
    /\ written' = FALSE
    /\ UNCHANGED <<fs, run, logged>>

\* run_pipeline: self.load_data(); an exception ends the run with False.
LoadData ==
    /\ UNCHANGED <<regime_vars, engineer_vars>>
    /\ pc = "load"
    /\ prev' = data
    /\ IF fs.raw = <<>>
       THEN /\ stages' = Append(stages, Stage("load", "raised"))
            /\ result' = "false"
            /\ pc' = "returned"
            /\ UNCHANGED data
       ELSE /\ stages' = Append(stages, Stage("load", "done"))
            /\ data' = fs.raw
            /\ pc' = "validate_structure"
            /\ UNCHANGED result
    /\ UNCHANGED <<fs, run, validation_errors, logged, written>>

\* run_pipeline: if not self.validate_data_structure(): return False
ValidateStructure ==
    /\ UNCHANGED <<regime_vars, engineer_vars>>
    /\ pc = "validate_structure"
    /\ LET r == validate_data_structure(data[1], validation_errors)
       IN  /\ prev' = data
           /\ data' = <<r.data>>
           /\ validation_errors' = r.errors
           /\ IF r.ok
              THEN /\ stages' = Append(stages, Stage("validate_structure", "true"))
                   /\ pc' = "clean"
                   /\ UNCHANGED result
              ELSE /\ stages' = Append(stages, Stage("validate_structure", "false"))
                   /\ result' = "false"
                   /\ pc' = "returned"
    /\ UNCHANGED <<fs, run, logged, written>>

\* run_pipeline: self.clean_data()
CleanData ==
    /\ UNCHANGED <<regime_vars, engineer_vars>>
    /\ pc = "clean"
    /\ \E t \in clean_data(data[1]) :
          /\ prev' = data
          /\ data' = <<t>>
    /\ stages' = Append(stages, Stage("clean", "done"))
    /\ pc' = "validate_price"
    /\ UNCHANGED <<fs, run, validation_errors, result, logged, written>>

\* run_pipeline: if not self.validate_price_data(): return False
ValidatePrice ==
    /\ UNCHANGED <<regime_vars, engineer_vars>>
    /\ pc = "validate_price"
    /\ LET r == validate_price_data(data[1], validation_errors)
       IN  /\ validation_errors' = r.errors
           /\ IF r.ok
              THEN /\ stages' = Append(stages, Stage("validate_price", "true"))
                   /\ pc' = "validate_volume"
                   /\ UNCHANGED result
              ELSE /\ stages' = Append(stages, Stage("validate_price", "false"))
                   /\ result' = "false"
                   /\ pc' = "returned"
    /\ prev' = data
    /\ UNCHANGED <<fs, run, data, logged, written>>

\* run_pipeline: if not self.validate_volume_data(): return False
ValidateVolume ==
    /\ UNCHANGED <<regime_vars, engineer_vars>>
    /\ pc = "validate_volume"
    /\ LET r == validate_volume_data(data[1], validation_errors)
       IN  /\ validation_errors' = r.errors
           /\ IF r.ok
              THEN /\ stages' = Append(stages, Stage("validate_volume", "true"))
                   /\ pc' = "validate_volatility"
                   /\ UNCHANGED result
              ELSE /\ stages' = Append(stages, Stage("validate_volume", "false"))
                   /\ result' = "false"
                   /\ pc' = "returned"
    /\ prev' = data
    /\ UNCHANGED <<fs, run, data, logged, written>>

\* run_pipeline: if not self.validate_volatility_data(): return False
ValidateVolatility ==
    /\ UNCHANGED <<regime_vars, engineer_vars>>
    /\ pc = "validate_volatility"
    /\ LET r == validate_volatility_data(data[1], validation_errors)
       IN  /\ prev' = data
           /\ data' = <<r.data>>
           /\ validation_errors' = r.errors
           /\ IF r.ok
              THEN /\ stages' = Append(stages, Stage("validate_volatility", "true"))
                   /\ pc' = "enhance"
                   /\ UNCHANGED result
              ELSE /\ stages' = Append(stages, Stage("validate_volatility", "false"))
                   /\ result' = "false"
                   /\ pc' = "returned"
    /\ UNCHANGED <<fs, run, logged, written>>

\* run_pipeline as it would be without the call of normalize_data.
EnhanceData_then_save ==
    /\ UNCHANGED <<regime_vars, engineer_vars>>
    /\ pc = "enhance"
    /\ prev' = data
    /\ data' = <<enhance_data(data[1])>>
    /\ stages' = Append(stages, Stage("enhance", "done"))
    /\ pc' = "save"
    /\ UNCHANGED <<fs, run, validation_errors, result, logged, written>>

\* run_pipeline: self.enhance_data()
EnhanceData ==
    /\ UNCHANGED <<regime_vars, engineer_vars>>
    /\ pc = "enhance"
    /\ prev' = data
    /\ data' = <<enhance_data(data[1])>>
    /\ stages' = Append(stages, Stage("enhance", "done"))
    /\ pc' = "normalize"
    /\ UNCHANGED <<fs, run, validation_errors, result, logged, written>>

\* run_pipeline: self.normalize_data()
NormalizeData ==
    /\ UNCHANGED <<regime_vars, engineer_vars>>
    /\ pc = "normalize"
    /\ prev' = data
    /\ data' = <<normalize_data(data[1])>>
    /\ stages' = Append(stages, Stage("normalize", "done"))
    /\ pc' = "save"
    /\ UNCHANGED <<fs, run, validation_errors, result, logged, written>>

\* run_pipeline as it would be if save_data swallowed its exception instead
\* of raising it again.
SaveData_swallowing ==
    /\ UNCHANGED <<regime_vars, engineer_vars>>
    /\ pc = "save"
    /\ prev' = data
    /\ \E writable \in BOOLEAN :
          IF writable
          THEN /\ fs' = [fs EXCEPT !.processed = data]
               /\ written' = TRUE
               /\ stages' = Append(stages, Stage("save", "done"))
          ELSE /\ stages' = Append(stages, Stage("save", "raised"))
               /\ UNCHANGED <<fs, written>>
    /\ logged' = logged \o validation_errors
    /\ result' = "true"
    /\ pc' = "returned"
    /\ UNCHANGED <<run, data, validation_errors>>

\* run_pipeline: self.save_data(), then the warnings for the accumulated
\* messages and return True; to_csv may raise (an output path that cannot
\* be written), which ends the run with False.
SaveData ==
    /\ UNCHANGED <<regime_vars, engineer_vars>>
    /\ pc = "save"
    /\ prev' = data
    /\ \E writable \in BOOLEAN :
          IF writable
          THEN /\ fs' = [fs EXCEPT !.processed = data]
               /\ written' = TRUE
               /\ stages' = Append(stages, Stage("save", "done"))
               /\ logged' = logged \o validation_errors
               /\ result' = "true"
          ELSE /\ stages' = Append(stages, Stage("save", "raised"))
               /\ result' = "false"
               /\ UNCHANGED <<fs, written, logged>>
    /\ pc' = "returned"
    /\ UNCHANGED <<run, data, validation_errors>>

\* main as it would be without the loop over pipeline.validation_errors.
MainReport_silent ==
    /\ UNCHANGED <<regime_vars, engineer_vars>>
    /\ pc = "returned"
    /\ pc' = "exit"
    /\ UNCHANGED <<fs, run, data, prev, validation_errors, stages, result, logged, written>>

\* main: after run_pipeline returned; a failed run's messages are logged.
MainReport ==
    /\ UNCHANGED <<regime_vars, engineer_vars>>
    /\ pc = "returned"
    /\ logged' = IF result = "false" THEN logged \o validation_errors ELSE logged
    /\ pc' = "exit"
    /\ UNCHANGED <<fs, run, data, prev, validation_errors, stages, result, written>>

\* The file a successful run persisted is handed to a new run as its input.
\* to_csv writes a date as its ISO text, a number as its digits and a
\* missing cell as an empty field; read_csv and the conversions of
\* validate_data_structure read each of them back as the cell it was.
Feedback ==
    /\ UNCHANGED <<regime_vars, engineer_vars>>
    /\ pc = "exit"
    /\ result = "true"
    /\ run < MaxRuns
    /\ fs' = [fs EXCEPT !.raw = fs.processed]
    /\ run' = run + 1
    /\ pc' = "main"
    /\ data' = <<>>
    /\ prev' = <<>>
    /\ validation_errors' = <<>>
    /\ stages' = <<>>
    /\ result' = "none"
    /\ logged' = <<>>
    /\ written' = FALSE

Next ==
    \/ Construct
    \/ LoadData
    \/ ValidateStructure
    \/ CleanData
    \/ ValidatePrice
    \/ ValidateVolume
    \/ ValidateVolatility
    \/ EnhanceData
    \/ NormalizeData
    \/ SaveData
    \/ MainReport
    \/ Feedback

Spec == Init /\ [][Next]_vars

\* ------------------------------------- run_pipeline called more than once
\* A caller constructs one DataQualityPipeline and calls run_pipeline on it
\* again and again; between two calls the input file may be replaced by a
\* valid one.
ValidFile ==
    <<[cols |-> all_columns,
       rows |-> <<RawRow(Num(1), "A"), RawRow(Num(2), "B")>>]>>

InitObject ==
    /\ fs \in {[raw |-> f, processed |-> <<>>] : f \in RawFiles}
    /\ run = 1
    /\ pc = "load"
    /\ data = <<>>
    /\ prev = <<>>
    /\ validation_errors = <<>>
    /\ stages = <<>>
    /\ result = "none"
    /\ logged = <<>>
    /\ written = FALSE
    /\ NoRegimeRun
    /\ NoEngineer

\* pipeline.run_pipeline() once more: self.data and self.validation_errors
\* are what the last call left.
RunPipelineAgain ==
    /\ UNCHANGED <<regime_vars, engineer_vars>>
    /\ pc = "returned"
    /\ run < MaxRuns
    /\ \E f \in {fs.raw, ValidFile} : fs' = [fs EXCEPT !.raw = f]
    /\ run' = run + 1
    /\ pc' = "load"
    /\ stages' = <<>>
    /\ result' = "none"
    /\ written' = FALSE
    /\ UNCHANGED <<data, prev, validation_errors, logged>>

NextObject ==
    \/ LoadData
    \/ ValidateStructure
    \/ CleanData
    \/ ValidatePrice
    \/ ValidateVolume
    \/ ValidateVolatility
    \/ EnhanceData
    \/ NormalizeData
    \/ SaveData
    \/ RunPipelineAgain

SpecObject == InitObject /\ [][NextObject]_vars

\* ----------------------------------- validate_volatility_data on its own
\* A caller sets self.data and calls validate_volatility_data.
InitVol ==
    /\ data \in {<<t>> : t \in VolTables}
    /\ pc = "validate_volatility"
    /\ fs = [raw |-> <<>>, processed |-> <<>>]
    /\ run = 1
    /\ prev = <<>>
    /\ validation_errors = <<>>
    /\ stages = <<>>
    /\ result = "none"
    /\ logged = <<>>
    /\ written = FALSE
    /\ NoRegimeRun
    /\ NoEngineer

NextVol == ValidateVolatility

SpecVol == InitVol /\ [][NextVol]_vars

\* ------------------------------------------------------- create_features
InitRegime ==
    /\ NoPipelineRun
    /\ NoEngineer
    /\ df_features_is_df = FALSE
    /\ n_regimes \in 2..MaxRegimes
    /\ transition_probs = <<>>
    /\ \/ /\ df \in SeriesTables
          /\ df_features = <<>>
          /\ rpc = "copy"
       \* a caller hands a table that carries labels already to
       \* calculate_regime_duration and the methods after it
       \/ /\ df = [cols |-> {}, rows |-> <<>>]
          /\ df_features \in {<<t>> : t \in LabelledTables(n_regimes)}
          /\ rpc = "calculate_regime_duration"

\* create_features with df_features = df in place of the copy.
CopyInput_aliasing ==
    /\ rpc = "copy"
    /\ df_features' = <<df>>
    /\ df_features_is_df' = TRUE
    /\ rpc' = "identify_regimes"
    /\ UNCHANGED <<pipeline_vars, engineer_vars, n_regimes, df, transition_probs>>

\* create_features: df_features = df.copy()
CopyInput ==
    /\ rpc = "copy"
    /\ df_features' = <<df>>
    /\ df_features_is_df' = FALSE
    /\ rpc' = "identify_regimes"
    /\ UNCHANGED <<pipeline_vars, engineer_vars, n_regimes, df, transition_probs>>

\* The methods assign their columns on the table they are handed and
\* return that table: df_features holds t, and so does df where the two
\* are one object.
AssignedInPlace(t) ==
    /\ df_features' = <<t>>
    /\ df' = IF df_features_is_df THEN t ELSE df

\* create_features: df_features = self.identify_regimes(df_features); the
\* ValueError of pd.qcut is not caught and ends the call.
IdentifyRegimes ==
    /\ rpc = "identify_regimes"
    /\ LET r == identify_regimes(df_features[1], n_regimes)
       IN  /\ AssignedInPlace(r.df)
           /\ rpc' = IF r.ok THEN "calculate_regime_duration" ELSE "raised"
    /\ UNCHANGED <<pipeline_vars, engineer_vars, n_regimes, transition_probs, df_features_is_df>>

\* create_features: df_features = self.calculate_regime_duration(df_features)
CalculateRegimeDuration ==
    /\ rpc = "calculate_regime_duration"
    /\ AssignedInPlace(calculate_regime_duration(df_features[1]))
    /\ rpc' = "calculate_regime_transitions"
    /\ UNCHANGED <<pipeline_vars, engineer_vars, n_regimes, transition_probs, df_features_is_df>>

\* create_features: df_features = self.calculate_regime_transitions(df_features);
\* the KeyError of transition_probs[regime] is not caught and ends the call.
CalculateRegimeTransitions ==
    /\ rpc = "calculate_regime_transitions"
    /\ LET r == calculate_regime_transitions(df_features[1], n_regimes)
       IN  /\ AssignedInPlace(r.df)
           /\ transition_probs' = <<r.transition_probs>>
           /\ rpc' = IF r.ok THEN "calculate_regime_boundary_distance"
                     ELSE "raised_key_error"
    /\ UNCHANGED <<pipeline_vars, engineer_vars, n_regimes, df_features_is_df>>

\* create_features: df_features = self.calculate_regime_boundary_distance(df_features)
CalculateRegimeBoundaryDistance ==
    /\ rpc = "calculate_regime_boundary_distance"
    /\ AssignedInPlace(calculate_regime_boundary_distance(df_features[1], n_regimes))
    /\ rpc' = "done"
    /\ UNCHANGED <<pipeline_vars, engineer_vars, n_regimes, transition_probs, df_features_is_df>>

NextRegime ==
    \/ CopyInput
    \/ IdentifyRegimes
    \/ CalculateRegimeDuration
    \/ CalculateRegimeTransitions
    \/ CalculateRegimeBoundaryDistance

SpecRegime == InitRegime /\ [][NextRegime]_vars

\* ------------------------------------------------ the feature engineer
\* RegimeFeatureEngineer(data_path, output_path): the constructor has loaded
\* the processed file.
InitEngineer ==
    /\ NoPipelineRun
    /\ NoRegimeRun
    /\ engineer_data \in {<<t>> : t \in EngineerTables}
    /\ target = <<>>
    /\ families = <<>>
    /\ features = <<>>
    /\ epc = "create_target_variable"

\* prepare_features: self.create_target_variable()
CreateTargetVariable ==
    /\ epc = "create_target_variable"
    /\ target' = <<create_target_variable(engineer_data[1])>>
    /\ epc' = "create_price_features"
    /\ UNCHANGED <<pipeline_vars, regime_vars, engineer_data, families, features>>

\* prepare_features: price_features = self.create_price_features()
CreatePriceFeatures ==
    /\ epc = "create_price_features"
    /\ families' = Append(families, create_price_features(engineer_data[1]))
    /\ epc' = "create_volume_features"
    /\ UNCHANGED <<pipeline_vars, regime_vars, engineer_data, target, features>>

\* prepare_features: volume_features = self.create_volume_features()
CreateVolumeFeatures ==
    /\ epc = "create_volume_features"
    /\ families' = Append(families, create_volume_features(engineer_data[1]))
    /\ epc' = "create_volatility_features"
    /\ UNCHANGED <<pipeline_vars, regime_vars, engineer_data, target, features>>

\* prepare_features: volatility_features = self.create_volatility_features();
\* its AttributeError is not caught and ends the call.
CreateVolatilityFeatures ==
    /\ epc = "create_volatility_features"
    /\ LET r == create_volatility_features(engineer_data[1], target)
       IN  IF r.ok
           THEN /\ families' = Append(families, r.features)
                /\ epc' = "create_time_features"
           ELSE /\ families' = <<>>
                /\ epc' = "raised_attribute_error"
    /\ UNCHANGED <<pipeline_vars, regime_vars, engineer_data, target, features>>

\* prepare_features: time_features = self.create_time_features()
CreateTimeFeatures ==
    /\ epc = "create_time_features"
    /\ families' = Append(families, create_time_features(engineer_data[1]))
    /\ epc' = "create_interaction_features"
    /\ UNCHANGED <<pipeline_vars, regime_vars, engineer_data, target, features>>

\* prepare_features: interaction_features = self.create_interaction_features()
CreateInteractionFeatures ==
    /\ epc = "create_interaction_features"
    /\ families' = Append(families, create_interaction_features(engineer_data[1]))
    /\ epc' = "concat"
    /\ UNCHANGED <<pipeline_vars, regime_vars, engineer_data, target, features>>

\* prepare_features: self.features = pd.concat([...], axis=1)
ConcatFeatures ==
    /\ epc = "concat"
    /\ features' = <<concat(families)>>
    /\ epc' = "fillna"
    /\ UNCHANGED <<pipeline_vars, regime_vars, engineer_data, target, families>>

\* prepare_features:
\* self.features = self.features.fillna(method='ffill').fillna(method='bfill'),
\* before the replacement and again after it.
FillFeatures ==
    /\ epc \in {"fillna", "fillna_again"}
    /\ features' = <<fillna(features[1])>>
    /\ epc' = IF epc = "fillna" THEN "replace" ELSE "prepared"
    /\ UNCHANGED <<pipeline_vars, regime_vars, engineer_data, target, families>>

\* prepare_features: self.features = self.features.replace([np.inf, -np.inf], np.nan)
ReplaceInfinite ==
    /\ epc = "replace"
    /\ features' = <<replace(features[1])>>
    /\ epc' = "fillna_again"
    /\ UNCHANGED <<pipeline_vars, regime_vars, engineer_data, target, families>>

\* A caller's own engineer.create_volatility_features(), on the engineer as
\* constructed or after prepare_features has returned.
CallCreateVolatilityFeatures ==
    /\ epc \in {"create_target_variable", "prepared"}
    /\ LET r == create_volatility_features(engineer_data[1], target)
       IN  IF r.ok
           THEN /\ families' = <<r.features>>
                /\ epc' = "returned_volatility_features"
           ELSE /\ families' = <<>>
                /\ epc' = "raised_attribute_error"
    /\ UNCHANGED <<pipeline_vars, regime_vars, engineer_data, target, features>>

NextEngineer ==
    \/ CreateTargetVariable
    \/ CreatePriceFeatures
    \/ CreateVolumeFeatures
    \/ CreateVolatilityFeatures
    \/ CreateTimeFeatures
    \/ CreateInteractionFeatures
    \/ ConcatFeatures
    \/ FillFeatures
    \/ ReplaceInfinite
    \/ CallCreateVolatilityFeatures

SpecEngineer == InitEngineer /\ [][NextEngineer]_vars

\* ================================================================ properties
\* What a run has executed, read off its record of stages.
Executed(name) == \E i \in 1..Len(stages) : stages[i].stage = name
Outcome(name, out) == \E i \in 1..Len(stages) : stages[i] = Stage(name, out)
Terminated == pc \in {"returned", "exit"}
Recorded(msg) == \E i \in 1..Len(validation_errors) : validation_errors[i] = msg
LaterStages == {"validate_volatility", "enhance", "normalize", "save"}

\* ------------------------------------------------------------------------ C1
\* C1: if one of the eight required columns is absent from the loaded table,
\* validate_data_structure appends the missing-columns message and returns
\* False, run_pipeline returns False, and the run executes nothing but load
\* and validate_structure, so it writes no output file.
LacksRequiredColumn == fs.raw # <<>> /\ required_columns \ fs.raw[1].cols # {}
StructureGateAborts ==
    LacksRequiredColumn =>
        /\ pc \in {"main", "load", "validate_structure", "returned", "exit"}
        /\ ~written
        /\ fs.processed = <<>>
        /\ Terminated =>
              /\ validation_errors = <<MissingColumnsMsg>>
              /\ stages = <<Stage("load", "done"), Stage("validate_structure", "false")>>
              /\ result = "false"
\* A run on a file without its realized_volatility column has ended.
StructureGateTripped ==
    /\ pc = "exit"
    /\ fs.raw # <<>>
    /\ "realized_volatility" \notin fs.raw[1].cols
    /\ result = "false"

\* ------------------------------------------------------------------------ C2
\* What the price and volume gates object to, stated on the cells of a table.
HasNegativePrice(t) ==
    \E i \in 1..NRows(t), c \in {"Open", "High", "Low", "Close"} : FLt(t.rows[i][c], Num(0))
HasInconsistentRow(t) ==
    \E i \in 1..NRows(t) :
        LET r == t.rows[i]
        IN  \/ FLt(r["High"], r["Low"])
            \/ \E c \in {"Open", "Close"} : FGt(r[c], r["High"]) \/ FLt(r[c], r["Low"])
HasNegativeVolume(t) == \E i \in 1..NRows(t) : FLt(t.rows[i]["Volume"], Num(0))
HasZeroVolume(t) == \E i \in 1..NRows(t) : t.rows[i]["Volume"] = Num(0)
Defective(t) ==
    HasNegativePrice(t) \/ HasInconsistentRow(t) \/ HasNegativeVolume(t) \/ HasZeroVolume(t)

\* C2: save_data is reached only if validate_price_data and
\* validate_volume_data both returned True; and if the cleaned table has a
\* negative price, an inconsistent OHLC row, a negative volume or a zero
\* volume, the run returns False and executes none of validate_volatility,
\* enhance, normalize and save.
PriceVolumeGates ==
    /\ Executed("save") =>
          Outcome("validate_price", "true") /\ Outcome("validate_volume", "true")
    /\ (Executed("clean") /\ Defective(data[1])) =>
          /\ \A name \in LaterStages : ~Executed(name)
          /\ ~written
          /\ Terminated => result = "false"
\* A run whose cleaned table has a zero volume has ended at the volume gate.
VolumeGateTripped ==
    /\ pc = "exit"
    /\ Outcome("validate_price", "true")
    /\ Outcome("validate_volume", "false")
    /\ HasZeroVolume(data[1])

\* ------------------------------------------------------------------------ C3
PassedThreeGates ==
    /\ Outcome("validate_structure", "true")
    /\ Outcome("validate_price", "true")
    /\ Outcome("validate_volume", "true")

\* C3 as stated: validate_volatility_data never returns False, and a run
\* that passed the structure, price and volume checks always goes on to
\* enhance, normalize and save and writes the output file.
VolatilityNeverGatesAlwaysWrites ==
    /\ ~Outcome("validate_volatility", "false")
    /\ (Terminated /\ PassedThreeGates) =>
          /\ Outcome("validate_volatility", "true")
          /\ Executed("enhance") /\ Executed("normalize") /\ Executed("save")
          /\ written

\* C3, amended: validate_volatility_data never returns False, and a run
\* that passed the structure, price and volume checks always goes on to
\* enhance, normalize and save; it writes the output file and returns True
\* unless save_data itself raises.
VolatilityNeverGates ==
    /\ ~Outcome("validate_volatility", "false")
    /\ (Terminated /\ PassedThreeGates) =>
          /\ Outcome("validate_volatility", "true")
          /\ Executed("enhance") /\ Executed("normalize") /\ Executed("save")
          /\ Outcome("save", "raised") \/ (written /\ result = "true" /\ fs.processed = data)
\* A run that recorded negative volatility has written its output.
WrittenDespiteNegativeVolatility ==
    /\ pc = "exit"
    /\ Recorded(NegativeVolatilityMsg)
    /\ written
    /\ result = "true"

\* ------------------------------------------------------------------------ C4
stage_order ==
    <<"load", "validate_structure", "clean", "validate_price", "validate_volume",
      "validate_volatility", "enhance", "normalize", "save">>

\* C4: the stages of a run execute in the order load, validate_structure,
\* clean, validate_price, validate_volume, validate_volatility, enhance,
\* normalize, save, each at most once and each after the one before it has
\* completed; a run that returns True has executed all nine.
StageOrdering ==
    /\ Len(stages) <= Len(stage_order)
    /\ \A i \in 1..Len(stages) : stages[i].stage = stage_order[i]
    /\ \A i \in 1..(Len(stages) - 1) : stages[i].out \in {"done", "true"}
    /\ result = "true" => Len(stages) = Len(stage_order)
\* A run has returned True.
RunSucceeded == pc = "exit" /\ result = "true" /\ Executed("save")

\* ------------------------------------------------------------------------ C5
\* C5: if load_data or save_data raises, the run ends there with the result
\* False; after a failed load no other stage has run, self.data is still
\* None and no output is written.
IOFailureAborts ==
    /\ Outcome("load", "raised") =>
          /\ stages = <<Stage("load", "raised")>>
          /\ Terminated
          /\ result = "false"
          /\ data = <<>>
          /\ ~written /\ fs.processed = <<>>
    /\ Outcome("save", "raised") =>
          /\ stages[Len(stages)] = Stage("save", "raised")
          /\ Terminated
          /\ result = "false"
          /\ ~written
\* A run whose save_data raised has ended.
SaveRaised == pc = "exit" /\ Outcome("save", "raised")

\* ------------------------------------------------------------------------ C6
\* C6: when a run has ended, in success or in failure, every message in
\* validation_errors has been written to the log.
DiagnosticsReported ==
    pc = "exit" =>
        \A i \in 1..Len(validation_errors) :
            \E j \in 1..Len(logged) : logged[j] = validation_errors[i]
\* A failed run with a recorded message has ended.
FailedRunReported == pc = "exit" /\ result = "false" /\ validation_errors # <<>>

\* ------------------------------------------------------------------------ C7
MissingInEveryRow(t, c) == \A i \in 1..NRows(t) : IsNaN(t.rows[i][c])
UnusableInEveryRow(t, c) == \A i \in 1..NRows(t) : t.rows[i][c].k \in {"nan", "bad"}
NoMissingRequired(t) ==
    \A i \in 1..NRows(t), c \in required_columns : ~IsNaN(t.rows[i][c])

\* C7 as stated: the table a run has persisted holds no missing marker in
\* a required column, provided no required column of the input file was
\* missing in every row.
PersistedRequiredComplete ==
    written =>
        ((\A c \in required_columns : ~MissingInEveryRow(fs.raw[1], c))
            => NoMissingRequired(fs.processed[1]))

\* C7, amended: the table a run has persisted holds no missing marker in
\* a required column, provided every required column of the input file has
\* a cell that is neither missing nor unparseable.
PersistedRequiredCompleteIfParseable ==
    written =>
        ((\A c \in required_columns : ~UnusableInEveryRow(fs.raw[1], c))
            => NoMissingRequired(fs.processed[1]))
\* A file with a gap in a required column, and a usable cell in every
\* required column, has been persisted.
GapFilledAndPersisted ==
    /\ written
    /\ \A c \in required_columns : ~UnusableInEveryRow(fs.raw[1], c)
    /\ \E i \in 1..NRows(fs.raw[1]), c \in required_columns :
          fs.raw[1].rows[i][c].k \in {"nan", "bad"}

\* ------------------------------------------------------------------------ C8
\* The second run of main has just cleaned the file the first run persisted.
CleanedOwnOutput == run > 1 /\ pc = "validate_price"

\* C8 as stated: on the persisted output of an earlier successful run,
\* clean_data reorders no row, drops no row and fills no cell.
CleanIsFixedPoint == CleanedOwnOutput => data = prev

\* C8, amended: on the persisted output of an earlier successful run,
\* clean_data reorders no row, drops no row and fills no cell of the eight
\* required columns (it does fill the leading gaps of derived columns).
CleanKeepsRequiredColumns ==
    CleanedOwnOutput =>
        /\ NRows(data[1]) = NRows(prev[1])
        /\ \A i \in 1..NRows(prev[1]), c \in required_columns :
              data[1].rows[i][c] = prev[1].rows[i][c]
\* clean_data has run on a persisted output of two rows or more.
CleanedOwnOutputOfSeveralRows == CleanedOwnOutput /\ NRows(prev[1]) >= 2

\* ------------------------------------------------------------------------ C9
\* The rounding allowance of the comparison with 3: 0.05.
Tolerance == Scale \div 20
\* validate_volatility_data has just returned.
VolatilityValidated == pc = "enhance" /\ Outcome("validate_volatility", "true")

\* C9 as stated: after validate_volatility_data no row lies more than 3
\* (plus the allowance) standard deviations from the mean, mean and standard
\* deviation being those of the column as the validator left it.
CappedWithinRecomputedBound ==
    VolatilityValidated =>
        LET s == Col(data[1], "realized_volatility")
        IN  \A i \in 1..Len(s) :
                ~FGt(ZScore(s[i], Mean(s), Std(s)), Num(3 * Scale + Tolerance))

\* C9, amended: after validate_volatility_data no row lies more than 3
\* standard deviations from the mean, mean and standard deviation being
\* those of the column as it was before the validator capped it.
CappedWithinOriginalBound ==
    VolatilityValidated =>
        LET s == Col(data[1], "realized_volatility")
            p == Col(prev[1], "realized_volatility")
        IN  \A i \in 1..Len(s) :
                ~FGt(ZScore(s[i], Mean(p), Std(p)), Num(3 * Scale))
\* validate_volatility_data has capped a value.
ValueCapped == VolatilityValidated /\ data # prev

\* ----------------------------------------------------------------------- C10
\* A column without missing cells whose values differ pairwise.
PairwiseDistinct(s) ==
    /\ \A i \in 1..Len(s) : IsNum(s[i])
    /\ \A i, j \in 1..Len(s) : i # j => s[i] # s[j]
\* The rows of t that carry the label.
Labelled(t, label) ==
    {i \in 1..NRows(t) :
        /\ t.rows[i]["vol_regime"].k = "cat"
        /\ regime_labels(n_regimes)[t.rows[i]["vol_regime"].v] = label}

\* C10: with n_regimes = 3 and a column of two or more pairwise different
\* values, identify_regimes finds no tied cut point, gives every row exactly
\* one of Low, Medium and High, and the numbers of rows of any two labels
\* differ by at most 1.
BalancedRegimePartition ==
    (/\ rpc \in {"calculate_regime_duration", "raised"}
     /\ n_regimes = 3
     /\ NRows(df) >= 2
     /\ PairwiseDistinct(Col(df, "realized_volatility"))) =>
        /\ rpc # "raised"
        /\ \A i \in 1..NRows(df) :
              Cardinality({l \in {"Low", "Medium", "High"} :
                              i \in Labelled(df_features[1], l)}) = 1
        /\ \A a, b \in {"Low", "Medium", "High"} :
              Cardinality(Labelled(df_features[1], a))
                  <= Cardinality(Labelled(df_features[1], b)) + 1
\* identify_regimes has labelled a column of four or more different values
\* with three regimes.
DistinctColumnLabelled ==
    /\ rpc = "calculate_regime_duration"
    /\ n_regimes = 3
    /\ NRows(df) >= 4
    /\ PairwiseDistinct(Col(df, "realized_volatility"))

\* ---------------------------------------------------------------------
\* C11  Row-stochastic transition matrix: each row of the matrix built by
\* calculate_regime_transitions sums to 1, for every label that has a row.
\* A label that occurs only in the last row of the table, or in no row, is
\* the previous label of no pair and has no row.  Each entry is a quotient
\* kept to a whole number of ticks, so a row's sum is short of 1 by less
\* than one tick per column.
RowTotal(m, a) == SumOver(m, a, m.columns)
RowStochastic ==
    transition_probs # <<>> =>
        LET m == transition_probs[1]
        IN  \A a \in m.index :
                /\ IsNum(RowTotal(m, a))
                /\ Abs(RowTotal(m, a).v - Scale) <= Cardinality(m.columns)
\* The labels of df_features that are the previous label of no pair.
LabelsWithoutRow ==
    {c.v : c \in {x \in {Col(df_features[1], "vol_regime")[i] :
                           i \in 1..NRows(df_features[1])} : x.k = "cat"}}
        \ transition_probs[1].index
\* A matrix of several rows, one of them spread over several columns, built
\* from a table whose last label has no row.
SeveralRowsNormalized ==
    /\ transition_probs # <<>>
    /\ Cardinality(transition_probs[1].index) >= 2
    /\ LabelsWithoutRow # {}
    /\ \E a \in transition_probs[1].index :
          Cardinality({b \in transition_probs[1].columns :
                          transition_probs[1].cell[a, b].v > 0}) >= 2

\* ---------------------------------------------------------------------
\* C12  Regime duration dynamics: regime_duration at row i is 0 if and only
\* if i is the first row or the label at i differs from the label at i-1,
\* and otherwise it is regime_duration at i-1 plus 1.  A row without a
\* label differs from its neighbours, as a missing value differs from
\* every value.
DurationComputed ==
    /\ df_features # <<>>
    /\ "regime_duration" \in df_features[1].cols
SameLabel(t, i) ==
    /\ i > 1
    /\ Col(t, "vol_regime")[i].k = "cat"
    /\ Col(t, "vol_regime")[i - 1] = Col(t, "vol_regime")[i]
DurationDynamics ==
    DurationComputed =>
        LET t == df_features[1]
            d == Col(t, "regime_duration")
        IN  \A i \in 1..NRows(t) :
                /\ IsNum(d[i])
                /\ (d[i].v = 0) <=> ~SameLabel(t, i)
                /\ SameLabel(t, i) => d[i] = FAdd(d[i - 1], Int64(1))
\* A run of three rows has been counted and the row after it starts anew.
RunCountedThenReset ==
    /\ DurationComputed
    /\ \E i \in 1..NRows(df_features[1]) :
          /\ Col(df_features[1], "regime_duration")[i] = Int64(2)
          /\ i < NRows(df_features[1])
          /\ Col(df_features[1], "regime_duration")[i + 1] = Int64(0)

\* ---------------------------------------------------------------------
\* C19  Duration counts the current row: regime_duration at row i equals
\* the number of consecutive rows ending at and including row i that share
\* row i's label.
\* The rows of the run that ends at row i, row i among them.
RunEndingAt(t, i) ==
    {j \in 1..i : \A k \in (j + 1)..i : SameLabel(t, k)}
DurationCountsCurrentRow ==
    DurationComputed =>
        \A i \in 1..NRows(df_features[1]) :
            Col(df_features[1], "regime_duration")[i]
                = Int64(Cardinality(RunEndingAt(df_features[1], i)))
\* C19, as the code has it: regime_duration at row i equals the number of
\* consecutive rows before row i, row i itself not counted, that share row
\* i's label; the first row of a run has 0.
DurationCountsEarlierRows ==
    DurationComputed =>
        \A i \in 1..NRows(df_features[1]) :
            Col(df_features[1], "regime_duration")[i]
                = Int64(Cardinality(RunEndingAt(df_features[1], i) \ {i}))
\* The second row of a run of two has been given its duration.
SecondRowOfRunCounted ==
    /\ DurationComputed
    /\ \E i \in 2..NRows(df_features[1]) :
          /\ Cardinality(RunEndingAt(df_features[1], i)) = 2
          /\ Col(df_features[1], "regime_duration")[i] = Int64(1)

\* ---------------------------------------------------------------------
\* C20  Transition annotation: once calculate_regime_transitions has run,
\* every row with label L carries, for every regime R, in transition_prob_R
\* the share of the pairs with previous label L whose current label is R;
\* so rows of one label carry the same values, and the values of a row add
\* up to 1 over the regimes.
TransitionsCalled == transition_probs # <<>>
\* The number of pairs (previous = a, current = b) of the label column l.
PairCount(l, a, b) ==
    Cardinality({i \in 2..Len(l) :
        /\ l[i - 1].k = "cat" /\ l[i - 1].v = a
        /\ l[i].k = "cat" /\ l[i].v = b})
PairsFrom(l, a) ==
    Cardinality({i \in 2..Len(l) :
        l[i - 1].k = "cat" /\ l[i - 1].v = a /\ l[i].k = "cat"})
RECURSIVE RowProbabilityTotal(_, _, _)
\* The sum of the transition_prob_* cells of row i over the regimes 1..r.
RowProbabilityTotal(t, i, r) ==
    IF r = 0 THEN Num(0)
    ELSE FAdd(Col(t, TransitionColumn(regime_labels(n_regimes)[r]))[i],
              RowProbabilityTotal(t, i, r - 1))
TransitionsAnnotated ==
    TransitionsCalled =>
        LET t == df_features[1]
            l == Col(t, "vol_regime")
        IN  /\ \A r \in 1..n_regimes :
                  TransitionColumn(regime_labels(n_regimes)[r]) \in t.cols
            /\ \A i \in 1..NRows(t) : l[i].k = "cat" =>
                  /\ \A r \in 1..n_regimes :
                        /\ PairsFrom(l, l[i].v) > 0
                        /\ Col(t, TransitionColumn(regime_labels(n_regimes)[r]))[i]
                              = Num((PairCount(l, l[i].v, r) * Scale)
                                        \div PairsFrom(l, l[i].v))
                  /\ IsNum(RowProbabilityTotal(t, i, n_regimes))
                  /\ Abs(RowProbabilityTotal(t, i, n_regimes).v - Scale)
                        <= n_regimes
\* The call ended in the KeyError of transition_probs[regime].
AnnotationRaised ==
    /\ TransitionsCalled
    /\ rpc = "raised_key_error"
\* The call returned, and a labelled row carries a missing probability.
AnnotationMissing ==
    /\ TransitionsCalled
    /\ rpc # "raised_key_error"
    /\ \E i \in 1..NRows(df_features[1]) :
          /\ Col(df_features[1], "vol_regime")[i].k = "cat"
          /\ \E r \in 1..n_regimes :
                IsNaN(Col(df_features[1],
                          TransitionColumn(regime_labels(n_regimes)[r]))[i])
\* The call returned with every labelled row annotated as stated.
AnnotationComplete ==
    /\ TransitionsCalled
    /\ rpc # "raised_key_error"
    /\ TransitionsAnnotated
    /\ NRows(df_features[1]) >= 3

\* ---------------------------------------------------------------------
\* C13  Target definition: create_target_variable sets target[i] = 1
\* exactly when realized_volatility[i] is strictly greater than mean + std
\* of the whole realized_volatility column, and 0 otherwise; for the series
\* 0.1, 0.2, 0.1, 0.9 only the row with 0.9 gets 1.
\* For the n present values with sum S and sum of squares Q, in exact
\* arithmetic x > mean + std (sample std) is n*x - S > 0 together with
\* (n*x - S)^2 * (n - 1) > n * (n*Q - S^2); fewer than two present values
\* have no std and no row is above the threshold.
SumSq(s) == SumV([i \in 1..Len(s) |-> Num(s[i].v * s[i].v)])
AboveMeanPlusStd(s, i) ==
    LET p == Present(s)
        n == Len(p)
        dev == n * s[i].v - SumV(p)
    IN  /\ IsNum(s[i])
        /\ n >= 2
        /\ dev > 0
        /\ dev * dev * (n - 1) > n * (n * SumSq(p) - SumV(p) * SumV(p))
ScenarioSeries == <<Num(10), Num(20), Num(10), Num(90)>>
TargetDefinition ==
    target # <<>> =>
        LET s == Col(engineer_data[1], "realized_volatility")
        IN  /\ Len(target[1]) = Len(s)
            /\ \A i \in 1..Len(s) :
                  target[1][i] = IF AboveMeanPlusStd(s, i) THEN 1 ELSE 0
            /\ s = ScenarioSeries => target[1] = <<0, 0, 0, 1>>
\* The target of the scenario's series has been computed.
ScenarioTargeted ==
    /\ target # <<>>
    /\ Col(engineer_data[1], "realized_volatility") = ScenarioSeries
    /\ target[1][4] = 1

\* ---------------------------------------------------------------------
\* C14  Validator verdicts on consistent prices with a zero volume:
\* starting from an empty error list, validate_price_data appends nothing
\* and returns True for a table whose rows all have non-negative OHLC with
\* low <= open <= high and low <= close <= high, and validate_volume_data
\* then appends the zero-volume message and returns False whenever a row
\* has volume 0.
ConsistentPrices(t) ==
    \A i \in 1..NRows(t) :
        LET r == t.rows[i]
        IN  /\ \A c \in {"Open", "High", "Low", "Close"} : IsNum(r[c]) /\ r[c].v >= 0
            /\ r["Low"].v <= r["Open"].v /\ r["Open"].v <= r["High"].v
            /\ r["Low"].v <= r["Close"].v /\ r["Close"].v <= r["High"].v
ConsistentPricesZeroVolume ==
    (Executed("validate_price") /\ ConsistentPrices(data[1])) =>
        /\ Outcome("validate_price", "true")
        /\ pc = "validate_volume" => validation_errors = <<>>
        /\ (Executed("validate_volume") /\ HasZeroVolume(data[1])) =>
              /\ Outcome("validate_volume", "false")
              /\ validation_errors = <<ZeroVolumeMsg>>
              /\ Terminated => result = "false"
\* The scenario's table (d1: H=10, L=8, O=9, C=9.5, V=100; d2: H=11, L=9,
\* O=9.5, C=10, V=0) has passed the price check and failed the volume check.
ScenarioZeroVolumeFlagged ==
    /\ Outcome("validate_price", "true")
    /\ Outcome("validate_volume", "false")
    /\ NRows(data[1]) = 2
    /\ \A c \in {"Open", "High", "Low", "Close", "Volume"} :
          /\ data[1].rows[1][c] = KindCells("A")[c]
          /\ data[1].rows[2][c] = KindCells("ZeroVolume")[c]
    /\ validation_errors = <<ZeroVolumeMsg>>

\* ---------------------------------------------------------------------
\* C15  Worked capping scenario: for the realized-volatility series
\* 1, 1, 1, 1, 50 the z-score of 50 is below 3, so validate_volatility_data
\* finds no extreme value and leaves all five values unchanged.
ScenarioVolatility == <<Int64(1), Int64(1), Int64(1), Int64(1), Int64(50)>>
ScenarioValidated ==
    /\ VolatilityValidated
    /\ Col(prev[1], "realized_volatility") = ScenarioVolatility
ScenarioNotCapped ==
    ScenarioValidated =>
        /\ FLt(ZScore(Int64(50), Mean(ScenarioVolatility), Std(ScenarioVolatility)),
               Int64(3))
        /\ Col(data[1], "realized_volatility") = ScenarioVolatility
        /\ validation_errors = <<>>
\* validate_volatility_data has returned the scenario's series.
ScenarioSeriesReturned ==
    /\ ScenarioValidated
    /\ NRows(data[1]) = 5
    /\ data[1].rows[5]["realized_volatility"] = Int64(50)

\* ---------------------------------------------------------------------
\* C16  Capping rule: validate_volatility_data takes mean and std of
\* realized_volatility once, before any replacement; every row with
\* |value - mean| / std > 3 is replaced by mean + 3 std if its value was
\* above the mean and by mean - 3 std if below; every other row and every
\* other column is left unchanged.
\* |x - mean| > 3 std, on the ticks of the three numbers.
BeyondThreeStd(x, mean, std) ==
    /\ IsNum(x) /\ IsNum(mean) /\ IsNum(std)
    /\ std.v > 0
    /\ Abs(x.v - mean.v) > 3 * std.v
CappingRule ==
    VolatilityValidated =>
        LET p == Col(prev[1], "realized_volatility")
            s == Col(data[1], "realized_volatility")
            mean == Mean(p)
            std == Std(p)
        IN  /\ data[1].cols = prev[1].cols
            /\ NRows(data[1]) = NRows(prev[1])
            /\ \A i \in 1..Len(p) :
                  IF BeyondThreeStd(p[i], mean, std)
                  THEN s[i] = IF p[i].v > mean.v THEN Num(mean.v + 3 * std.v)
                              ELSE Num(mean.v - 3 * std.v)
                  ELSE s[i] = p[i]
            /\ \A c \in prev[1].cols \ {"realized_volatility"} :
                  Col(data[1], c) = Col(prev[1], c)
\* One value has been capped from below the mean and the others are kept.
CappedFromBelow ==
    /\ VolatilityValidated
    /\ \E i \in 1..NRows(data[1]) :
          /\ FGt(data[1].rows[i]["realized_volatility"],
                 prev[1].rows[i]["realized_volatility"])
          /\ \A j \in 1..NRows(data[1]) : j # i => data[1].rows[j] = prev[1].rows[j]

\* ---------------------------------------------------------------------
\* C17  Type coercion is non-fatal: when all required columns are present,
\* validate_data_structure succeeds whatever the cells hold; an unparseable
\* value in the timestamp column or in a numeric required column becomes a
\* missing value and causes no error, no validation message and no failure
\* of the pipeline.
StructureChecked ==
    /\ fs.raw # <<>>
    /\ required_columns \subseteq fs.raw[1].cols
    /\ Executed("validate_structure")
UnparseableCells(t) ==
    {<<i, c>> \in (1..NRows(t)) \X required_columns : t.rows[i][c].k = "bad"}
CoercionNeverFatal ==
    StructureChecked =>
        /\ Outcome("validate_structure", "true")
        /\ ~Recorded(ConversionMsg)
        /\ pc = "clean" =>
              \A p \in UnparseableCells(fs.raw[1]) : IsNaN(data[1].rows[p[1]][p[2]])
\* C17, as the code has it: with all required columns present, an
\* unparseable value in a numeric required column becomes a missing value
\* and causes no message and no failure, and validate_data_structure
\* succeeds, unless the timestamp column holds an unparseable value: then
\* the conversion raises, validate_data_structure records "Error converting
\* data types" and returns False, and the run fails without output.
CoercionFatalForTimestampsOnly ==
    StructureChecked =>
        IF \E i \in 1..NRows(fs.raw[1]) : fs.raw[1].rows[i]["Date"].k = "bad"
        THEN /\ Outcome("validate_structure", "false")
             /\ validation_errors = <<ConversionMsg>>
             /\ pc \in {"returned", "exit"}
             /\ result = "false"
             /\ ~written
        ELSE /\ Outcome("validate_structure", "true")
             /\ ~Recorded(ConversionMsg)
             /\ pc = "clean" =>
                   /\ validation_errors = <<>>
                   /\ NRows(data[1]) = NRows(fs.raw[1])
                   /\ \A i \in 1..NRows(data[1]), c \in required_columns :
                         data[1].rows[i][c] =
                             IF <<i, c>> \in UnparseableCells(fs.raw[1])
                             THEN NaN ELSE fs.raw[1].rows[i][c]
\* A file with an unparseable Close has passed validate_data_structure.
UnparseableCloseCoerced ==
    /\ StructureChecked
    /\ pc = "clean"
    /\ \E i \in 1..NRows(fs.raw[1]) :
          /\ fs.raw[1].rows[i]["Close"].k = "bad"
          /\ IsNaN(data[1].rows[i]["Close"])
\* A file with an unparseable Date has been rejected.
UnparseableDateRejected ==
    /\ StructureChecked
    /\ pc = "exit"
    /\ \E i \in 1..NRows(fs.raw[1]) : fs.raw[1].rows[i]["Date"].k = "bad"
    /\ validation_errors = <<ConversionMsg>>

\* ---------------------------------------------------------------------
\* C18  Clean post-condition: after clean_data the timestamps of the table
\* are strictly ascending, and for every timestamp that occurred more than
\* once in the input the single retained row is the first occurrence of
\* that timestamp: it holds the cells that occurrence had, wherever the
\* occurrence had a value.
JustCleaned == pc = "validate_price" /\ Executed("clean")
StrictlyAscending(d) ==
    \A i \in 1..Len(d), j \in 1..Len(d) :
        i < j => IsNum(d[i]) /\ IsNum(d[j]) /\ d[i].v < d[j].v
\* The rows of t with the date cell c.
Occurrences(t, c) == {i \in 1..NRows(t) : t.rows[i]["Date"] = c}
FirstOccurrence(t, c) ==
    CHOOSE i \in Occurrences(t, c) : \A j \in Occurrences(t, c) : i <= j
\* Row r of the cleaned table is row f of the input, gaps filled.
IsRowOf(out, r, in, f) ==
    \A c \in out.cols :
        IsNaN(in.rows[f][c]) \/ out.rows[r][c] = in.rows[f][c]
CleanKeepsFirstOccurrence ==
    JustCleaned =>
        /\ StrictlyAscending(Col(data[1], "Date"))
        /\ \A f \in 1..NRows(prev[1]) :
              LET c == prev[1].rows[f]["Date"]
              IN  (/\ IsNum(c)
                   /\ Cardinality(Occurrences(prev[1], c)) > 1
                   /\ f = FirstOccurrence(prev[1], c)) =>
                      /\ Cardinality(Occurrences(data[1], c)) = 1
                      /\ \A r \in Occurrences(data[1], c) :
                            IsRowOf(data[1], r, prev[1], f)
\* The timestamps are strictly ascending, and a later row of a repeated
\* timestamp has been retained in place of the first one.
LaterOccurrenceRetained ==
    /\ JustCleaned
    /\ StrictlyAscending(Col(data[1], "Date"))
    /\ \E f \in 1..NRows(prev[1]), g \in 1..NRows(prev[1]), r \in 1..NRows(data[1]) :
          /\ f < g
          /\ IsNum(prev[1].rows[f]["Date"])
          /\ f = FirstOccurrence(prev[1], prev[1].rows[f]["Date"])
          /\ prev[1].rows[g]["Date"] = prev[1].rows[f]["Date"]
          /\ data[1].rows[r]["Date"] = prev[1].rows[f]["Date"]
          /\ ~IsRowOf(data[1], r, prev[1], f)
          /\ IsRowOf(data[1], r, prev[1], g)
\* The first part alone: the cleaned timestamps are strictly ascending.
CleanedStrictlyAscending ==
    JustCleaned => StrictlyAscending(Col(data[1], "Date"))

\* ---------------------------------------------------------------------
\* C21  Boundary distances use global bounds: for every row,
\* distance_to_lower_boundary is the row's volatility minus the least
\* volatility of the column and distance_to_upper_boundary the greatest
\* minus the row's, whatever the row's regime and whatever n_regimes; so
\* both are non-negative and add up to greatest - least in every row.  A
\* row without a volatility has no distances.
DistancesComputed ==
    /\ rpc = "done"
    /\ "distance_to_lower_boundary" \in df_features[1].cols
PresentValues(s) == {s[i].v : i \in {j \in 1..Len(s) : IsNum(s[j])}}
Least(S) == CHOOSE x \in S : \A y \in S : x <= y
Greatest(S) == CHOOSE x \in S : \A y \in S : y <= x
GlobalBoundaryDistances ==
    DistancesComputed =>
        LET t == df_features[1]
            s == Col(t, "realized_volatility")
            lo == Col(t, "distance_to_lower_boundary")
            up == Col(t, "distance_to_upper_boundary")
            S == PresentValues(s)
        IN  \A i \in 1..NRows(t) :
                IF IsNum(s[i])
                THEN /\ lo[i] = Num(s[i].v - Least(S))
                     /\ up[i] = Num(Greatest(S) - s[i].v)
                     /\ lo[i].v >= 0 /\ up[i].v >= 0
                     /\ lo[i].v + up[i].v = Greatest(S) - Least(S)
                ELSE IsNaN(lo[i]) /\ IsNaN(up[i])
\* With a number of regimes other than three, a row strictly between the
\* least and the greatest volatility has both its distances.
InnerRowMeasured ==
    /\ DistancesComputed
    /\ n_regimes # 3
    /\ \E i \in 1..NRows(df_features[1]) :
          /\ FGt(df_features[1].rows[i]["distance_to_lower_boundary"], Num(0))
          /\ FGt(df_features[1].rows[i]["distance_to_upper_boundary"], Num(0))

\* ---------------------------------------------------------------------
\* C26  RegimeLabeler does not alias its input: create_features works on a
\* copy, so no step of it changes the caller's table, which keeps exactly
\* the columns and values it had, and the table it returns is another
\* object than the caller's.
InputNotAliased == [][df' = df /\ ~df_features_is_df']_vars
\* create_features has returned its table with all the added columns, and
\* the caller's table still has its one column.
FeaturesReturnedInputKept ==
    /\ rpc = "done"
    /\ df.cols = {"realized_volatility"}
    /\ NRows(df) >= 2
    /\ {"vol_regime", "regime_group", "regime_duration",
        "distance_to_lower_boundary", "distance_to_upper_boundary"}
            \subseteq df_features[1].cols

\* ---------------------------------------------------------------------
\* C27  Regime labels are ordered by value: in the table identify_regimes
\* has labelled, with the labels in the order Low < Medium < High (or
\* Regime_1 < ... < Regime_N), every row that has a volatility has a label,
\* and a volatility that is not above another's has a label that is not
\* above the other's; so rows of equal volatility have the same label.
LabelledByIdentifyRegimes ==
    /\ df.cols # {}
    /\ df_features # <<>>
    /\ "vol_regime" \in df_features[1].cols
LabelsOrderedByValue ==
    LabelledByIdentifyRegimes =>
        LET s == Col(df_features[1], "realized_volatility")
            l == Col(df_features[1], "vol_regime")
        IN  \A a \in 1..Len(s), b \in 1..Len(s) :
                (IsNum(s[a]) /\ IsNum(s[b]) /\ s[a].v <= s[b].v) =>
                    /\ l[a].k = "cat" /\ l[b].k = "cat"
                    /\ l[a].v \in 1..n_regimes
                    /\ l[a].v <= l[b].v
\* identify_regimes has labelled a table in which a volatility repeats and
\* every regime occurs.
TiedValuesLabelled ==
    /\ LabelledByIdentifyRegimes
    /\ rpc = "calculate_regime_duration"
    /\ \E a, b \in 1..NRows(df) :
          a # b /\ IsNum(df.rows[a]["realized_volatility"])
                /\ df.rows[a]["realized_volatility"] = df.rows[b]["realized_volatility"]
    /\ \A c \in 1..n_regimes :
          \E i \in 1..NRows(df) : df_features[1].rows[i]["vol_regime"] = Cat(c)

\* ---------------------------------------------------------------------
\* C25  Enhance and normalize only append: enhance_data and normalize_data
\* add new columns and never modify, reorder or remove a row or a value of
\* a column that existed before the stage; each column X of the normalize
\* list gets a twin X_normalized while X keeps its values, so the required
\* columns reach save_data as validate_volatility_data left them.
JustEnhanced == pc = "normalize" /\ Executed("enhance")
JustNormalized == pc = "save" /\ Executed("normalize")
\* The columns of cs hold in data what they held before the last stage.
ColumnsKept(cs) ==
    /\ NRows(data[1]) = NRows(prev[1])
    /\ prev[1].cols \subseteq data[1].cols
    /\ \A c \in cs : Col(data[1], c) = Col(prev[1], c)
TwinsAdded ==
    \A i \in 1..Len(features_to_normalize) :
        NormalizedName(features_to_normalize[i]) \in data[1].cols
EnhanceNormalizeOnlyAppend ==
    /\ JustEnhanced => ColumnsKept(prev[1].cols)
    /\ JustNormalized => ColumnsKept(prev[1].cols) /\ TwinsAdded
\* The names enhance_data and normalize_data assign to.
AssignedNames ==
    {enhanced_columns[i] : i \in 1..Len(enhanced_columns)}
        \cup {NormalizedName(features_to_normalize[i]) :
                i \in 1..Len(features_to_normalize)}
\* C25, as the code has it: enhance_data and normalize_data never reorder
\* or remove a row and never modify or remove a column other than the ones
\* they assign (the sixteen derived columns and the X_normalized twins),
\* which they overwrite where the table has them already, as in a run on a
\* persisted output; each X of the normalize list gets its twin while X
\* keeps its values, and the required columns reach save_data as
\* validate_volatility_data left them.
EnhanceNormalizeAssignOwnColumns ==
    /\ JustEnhanced =>
          /\ ColumnsKept(prev[1].cols \ AssignedNames)
          /\ required_columns \subseteq prev[1].cols \ AssignedNames
    /\ JustNormalized =>
          /\ ColumnsKept(prev[1].cols \ AssignedNames)
          /\ TwinsAdded
          /\ \A i \in 1..Len(features_to_normalize) :
                Col(data[1], features_to_normalize[i])
                    = Col(prev[1], features_to_normalize[i])
\* enhance_data has replaced values of a column its input had already.
DerivedColumnOverwritten ==
    /\ JustEnhanced
    /\ \E c \in prev[1].cols : Col(data[1], c) # Col(prev[1], c)
\* normalize_data has added the twins to a table of several rows.
TwinsAddedToSeveralRows ==
    /\ JustNormalized
    /\ NRows(data[1]) >= 2
    /\ TwinsAdded
    /\ "Volume_normalized" \notin prev[1].cols

\* ---------------------------------------------------------------------
\* C30  Dropped duplicates do not leak values: every cell of a retained row
\* holds that row's own input value or a value copied from another retained
\* row; equivalently, clean_data's fill-then-deduplicate leaves a table
\* that deduplicate-then-fill leaves as well.
CleanInput == DropCols(prev[1], columns_to_drop)
DeduplicateThenFill(s) == fillna(drop_duplicates(s))
NoLeakFromDroppedRows ==
    JustCleaned =>
        \E s \in sort_values(CleanInput) : data[1] = DeduplicateThenFill(s)
\* C30, as the code has it: every cell of a retained row holds a value of
\* the same column of some input row, its own or one the fill copied from
\* another row, and that other row may be a duplicate that is removed
\* afterwards; fill-then-deduplicate is not deduplicate-then-fill.
CellsComeFromInputRows ==
    JustCleaned =>
        /\ data[1].cols = CleanInput.cols
        /\ \A r \in 1..NRows(data[1]), c \in data[1].cols :
              \E i \in 1..NRows(prev[1]) : prev[1].rows[i][c] = data[1].rows[r][c]
\* The rows of the sorted table s that clean_data retains.
RetainedRows(s) ==
    LET d == Col(fillna(s), "Date")
    IN  {i \in 1..NRows(s) : \A j \in 1..(i - 1) : d[j] # d[i]}
\* A retained row holds a value that no retained row had in the input: the
\* fill took it from a row that was dropped afterwards.
ValueOfDroppedRowRetained ==
    /\ JustCleaned
    /\ \E s \in sort_values(CleanInput) :
          /\ data[1] = drop_duplicates(fillna(s))
          /\ \E r \in 1..NRows(data[1]), c \in data[1].cols \ {"Date"} :
                /\ IsNum(data[1].rows[r][c])
                /\ \A i \in RetainedRows(s) : s.rows[i][c] # data[1].rows[r][c]

\* ---------------------------------------------------------------------
\* C28  The error list is append-only and sticky: no operation of a
\* DataQualityPipeline object removes or clears an entry of
\* validation_errors, and a run_pipeline call that reaches
\* validate_price_data with a list that is not empty returns False there
\* and persists nothing, whatever its data are and whatever the earlier
\* call returned.
IsPrefix(a, b) == Len(a) <= Len(b) /\ \A i \in 1..Len(a) : a[i] = b[i]
ErrorsAppendOnlyAndSticky ==
    [][/\ IsPrefix(validation_errors, validation_errors')
       /\ (pc = "validate_price" /\ validation_errors # <<>>) =>
             /\ pc' = "returned"
             /\ result' = "false"
             /\ ~written'
             /\ fs' = fs]_vars
\* After a call that succeeded and recorded only the negative-volatility
\* message, a call on a valid file has returned False at the price check.
ValidRerunRejected ==
    /\ run = 2
    /\ fs.raw = ValidFile
    /\ fs.processed # <<>>
    /\ validation_errors = <<NegativeVolatilityMsg>>
    /\ Outcome("validate_price", "false")
    /\ pc = "returned"
    /\ result = "false"
    /\ ~written

\* ---------------------------------------------------------------------
\* C29  Result matches the side effect: run_pipeline lets no exception
\* escape and always returns a boolean; it returns True if and only if
\* save_data completed in that run, and a True result implies that
\* validation_errors holds no price or volume message, at most the
\* negative-volatility message.
ResultMatchesSideEffect ==
    /\ pc = "returned" =>
          /\ result \in {"true", "false"}
          /\ result = "true" <=> Outcome("save", "done")
          /\ result = "true" <=> written
          /\ result = "true" =>
                /\ fs.processed = data
                /\ \A i \in 1..Len(validation_errors) :
                      validation_errors[i] = NegativeVolatilityMsg
    /\ (Outcome("load", "raised") \/ Outcome("save", "raised")) =>
          pc = "returned" /\ result = "false"
    /\ pc # "returned" => result = "none"
\* A call has returned True with the negative-volatility message on its
\* list.
TrueWithVolatilityMessage ==
    /\ pc = "returned"
    /\ result = "true"
    /\ validation_errors = <<NegativeVolatilityMsg>>
    /\ Outcome("save", "done")

\* ---------------------------------------------------------------------
\* C24  Price momentum definition: for each window w in {5, 10, 20} the
\* feature price_momentum_{w}d is the one-step percentage change of the
\* w-row rolling mean of close, a different quantity from the w-horizon
\* percentage change of close.
\* The frames of the price family a call has built.
PriceFrames ==
    {families[k] : k \in {j \in 1..Len(families) :
                            <<"price_momentum", 5>> \in families[j].cols}}
\* The statement as claimed; create_price_features refutes it.
MomentumIsChangeOfRollingMean ==
    \A p \in PriceFrames : \A w \in windows :
        LET mean == RollMean(Col(engineer_data[1], "Close"), w)
        IN  \A i \in 1..NRows(p) :
               p.rows[i][<<"price_momentum", w>>]
                 = IF i = 1 THEN NaN
                   ELSE FSub(FDiv(mean[i], mean[i - 1]), Int64(1))
\* C24 as it holds: price_momentum_{w}d is the w-horizon percentage change
\* of close, close[i] / close[i - w] - 1 on the forward-padded closes and
\* missing in the first w rows; for the windows 5 and 10 it is the column
\* price_change_{w}d once more.
MomentumIsHorizonChange ==
    \A p \in PriceFrames : \A w \in windows :
        LET padded == FFill(Col(engineer_data[1], "Close"))
        IN  /\ \A i \in 1..NRows(p) :
                  p.rows[i][<<"price_momentum", w>>]
                    = IF i <= w THEN NaN
                      ELSE FSub(FDiv(padded[i], padded[i - w]), Int64(1))
            /\ w \in horizons =>
                  Col(p, <<"price_momentum", w>>) = Col(p, <<"price_change", w>>)
\* Five calm days and a busy one: the close doubles over five rows while
\* its rolling mean rises by a fifth.
FiveDayMomentumOfDoubledClose ==
    \E p \in PriceFrames :
        /\ NRows(p) >= 6
        /\ \A i \in 1..5 : engineer_data[1].rows[i]["Close"] = Int64(1)
        /\ engineer_data[1].rows[6]["Close"] = Int64(2)
        /\ p.rows[6][<<"price_momentum", 5>>] = Int64(1)
        /\ PctChange(RollMean(Col(engineer_data[1], "Close"), 5))[6] = Num(20)

\* ---------------------------------------------------------------------
\* C22  Target-before-volatility ordering: whenever the volatility feature
\* family is built the target has been computed before, and the family is
\* never computed from an absent target: prepare_features creates the
\* target first, and create_volatility_features called on a freshly
\* constructed engineer raises instead of returning a family.
\* The frames of the volatility family a call has built.
VolatilityFrames ==
    {families[k] : k \in {j \in 1..Len(families) :
                            <<"regime_persistence", 5>> \in families[j].cols}}
TargetBeforeVolatilityFamily ==
    [][/\ (families' # families /\ VolatilityFrames' # {}) =>
             /\ target # <<>>
             /\ target' = target
             /\ \A v \in VolatilityFrames' : \A w \in windows :
                   Col(v, <<"regime_persistence", w>>)
                     = RollMean([i \in 1..Len(target[1]) |-> Int64(target[1][i])], w)
       /\ (target = <<>> /\ target' = <<>>) =>
             /\ epc' = "raised_attribute_error"
             /\ families' = <<>>
             /\ features' = <<>>]_vars
\* prepare_features has built the volatility family of four calm days and
\* a busy one: the target is 1 on the busy day only, and a fifth of the
\* five days up to it are of the high regime.
PersistenceBuiltFromTarget ==
    /\ epc = "create_time_features"
    /\ target # <<>>
    /\ Len(target[1]) >= 5
    /\ \A i \in 1..5 : target[1][i] = IF i = 5 THEN 1 ELSE 0
    /\ \E v \in VolatilityFrames : v.rows[5][<<"regime_persistence", 5>>] = Num(20)

\* ---------------------------------------------------------------------
\* C23  Merge repair: prepare_features fills forward, fills backward,
\* replaces +inf and -inf by the missing marker, fills forward and fills
\* backward, in this order. Afterwards no feature cell is infinite; a
\* feature column holds a missing marker only if every cell of it was
\* missing or infinite before the repair; and a missing cell with a finite
\* value both earlier and later in its column has taken the earlier one.
\* After the first fill (and before the replacement) only a column that was
\* missing throughout still holds a missing marker, and the infinite cells
\* are still there; after the replacement no cell is infinite.
Merged == concat(families)
AllMissing(s) == \A i \in 1..Len(s) : IsNaN(s[i])
NothingFinite(s) == \A i \in 1..Len(s) : ~IsNum(s[i])
FiniteEarlier(s, i) == {j \in 1..(i - 1) : IsNum(s[j])}
FiniteLater(s, i) == {j \in (i + 1)..Len(s) : IsNum(s[j])}
MergeRepair ==
    /\ epc \in {"fillna", "replace", "fillna_again", "prepared"} =>
          /\ features[1].cols = Merged.cols
          /\ NRows(features[1]) = NRows(Merged)
    /\ epc = "replace" =>
          \A c \in Merged.cols :
              LET b == Col(Merged, c)
                  a == Col(features[1], c)
              IN  /\ ~AllMissing(b) => \A i \in 1..Len(a) : ~IsNaN(a[i])
                  /\ \A i \in 1..Len(a) : IsInf(b[i]) => a[i] = b[i]
    /\ epc = "fillna_again" =>
          \A c \in Merged.cols : ~HasInf(Col(features[1], c))
    /\ epc = "prepared" =>
          \A c \in Merged.cols :
              LET b == Col(Merged, c)
                  a == Col(features[1], c)
              IN  /\ ~HasInf(a)
                  /\ ~NothingFinite(b) => \A i \in 1..Len(a) : IsNum(a[i])
                  /\ \A i \in 1..Len(a) :
                        ( /\ IsNaN(b[i])
                          /\ FiniteEarlier(b, i) # {}
                          /\ FiniteLater(b, i) # {} ) =>
                            \E j \in FiniteEarlier(b, i) :
                               /\ \A k \in FiniteEarlier(b, i) : k <= j
                               /\ a[i] = b[j]
\* prepare_features has repaired a column in which a missing cell lay
\* between an earlier and a different later finite value, with an infinite
\* cell in the column as well, next to a column that stays missing.
MissingCellTookEarlierValue ==
    /\ epc = "prepared"
    /\ \E c \in Merged.cols :
          LET b == Col(Merged, c)
              a == Col(features[1], c)
          IN  /\ HasInf(b)
              /\ \E i \in 1..Len(b) : \E j \in FiniteEarlier(b, i) :
                    \E k \in FiniteLater(b, i) :
                       /\ IsNaN(b[i])
                       /\ b[j] # b[k]
                       /\ a[i] = b[j]
    /\ \E c \in Merged.cols :
          /\ AllMissing(Col(Merged, c))
          /\ AllMissing(Col(features[1], c))

====
